---------------------------- MODULE Spec2Model ----------------------------
(***************************************************************************)
(* State-machine model of the sdd-agentic-framework core:                  *)
(*   - the refinement loop (sdd/refinement/engine.py, models.py),          *)
(*   - the auto-debug loop (sdd/agents/engineering/autodebug.py),          *)
(*   - the quality-gate verifier decision (sdd/agents/quality),            *)
(*   - the router (sdd/agents/architecture).                               *)
(* Scores are fixed-point integers: a score is a number of hundredths, and *)
(* ema_quality is a number of 1/EmaScale so that 0.3*s + 0.7*ema is exact. *)
(***************************************************************************)
EXTENDS Integers, Sequences, FiniteSets, TLC

VARIABLES
    \* ---- refinement loop (RefinementEngine.refine_until_sufficient) ----
    rpc,          \* position of the call
    engine,       \* the RefinementEngine's configuration for this call
    hasHook,      \* whether a refinement_fn was passed
    state,        \* the in-memory RefinementState (NoDoc before it is loaded)
    disk,         \* <state_dir>/<task_id>.json (NoDoc when absent)
    escDoc,       \* <state_dir>/<task_id>_escalation.txt: NoDoc or the state it reports
    escWrites,    \* escalation documents written by this call
    pending,      \* the VerificationDecision of the current round
    now,          \* the wall clock
    verifyCalls,  \* verifier.verify invocations of this call
    hookCalls,    \* refinement_fn invocations of this call
    startRound,   \* current_round of the state the call started from
    loaded,       \* whether the call resumed a persisted state
    exitVia       \* which return statement ended the call

rvars == <<rpc, engine, hasHook, state, disk, escDoc, escWrites, pending, now,
           verifyCalls, hookCalls, startRound, loaded, exitVia>>

-----------------------------------------------------------------------------
(* Bounds of the model.                                                    *)

MaxRounds == 3
MaxPersistIters == 2
MaxTime == 1

NoDoc == [absent |-> TRUE]

Min(a, b) == IF a <= b THEN a ELSE b

RECURSIVE Pow10(_)
Pow10(n) == IF n = 0 THEN 1 ELSE 10 * Pow10(n - 1)

\* ema_quality is kept in units of 1/EmaScale = 1e-9: each update divides
\* the unit by ten, so seven successive updates of scores given in
\* hundredths are exact.
EmaScale == 100 * Pow10(7)

FromScore(s) == s * (EmaScale \div 100)

-----------------------------------------------------------------------------
(* sdd/refinement/engine.py: configuration.                                *)

\* RefinementEngine._get_quality_threshold: the per-phase defaults.
Phases == {"specification", "planning", "implementation", "validation"}

_get_quality_threshold(phase) ==
    CASE phase = "specification" -> 90
      [] phase = "planning" -> 85
      [] phase = "implementation" -> 80
      [] phase = "validation" -> 80

\* EARLY_STOP_THRESHOLD default.
EarlyStopDefault == 95

-----------------------------------------------------------------------------
(* sdd/refinement/models.py: RefinementState.                              *)

\* should_stop without the max-rounds clause.
mut_should_stop(S) == S.ema_quality >= FromScore(S.quality_threshold)

\* RefinementState.should_stop
should_stop(S) ==
    \/ S.ema_quality >= FromScore(S.quality_threshold)
    \/ S.current_round >= S.max_rounds

\* RefinementState.should_early_stop
should_early_stop(S) == S.ema_quality >= FromScore(S.early_stopping_threshold)

\* can_continue that reads the round limit only.
mut_can_continue(S) == S.current_round < S.max_rounds

\* RefinementState.can_continue
can_continue(S) == ~should_stop(S)

\* The four model validators and the field constraints, run by the
\* constructor and by load_from_file (model_validate_json).
validate_current_round_within_max(S) == S.current_round <= S.max_rounds

validate_quality_thresholds(S) == S.quality_threshold < S.early_stopping_threshold

validate_iterations_chronological(S) ==
    \A i \in 1..(Len(S.iterations) - 1) :
        S.iterations[i].timestamp <= S.iterations[i + 1].timestamp

validate_iterations_sequential(S) ==
    \A i \in 1..Len(S.iterations) : S.iterations[i].round = i

RefinementStateValid(S) ==
    /\ S.current_round >= 0
    /\ S.max_rounds > 0
    /\ S.ema_quality >= 0 /\ S.ema_quality <= EmaScale
    /\ validate_current_round_within_max(S)
    /\ validate_quality_thresholds(S)
    /\ validate_iterations_chronological(S)
    /\ validate_iterations_sequential(S)

\* The EMA with alpha = 0.2.
mut_EmaUpdate(ema, score) ==
    2 * score * (EmaScale \div 1000) + 8 * (ema \div 10)

\* The EMA with alpha = 0.7.
mut_EmaFast(ema, score) ==
    7 * score * (EmaScale \div 1000) + 3 * (ema \div 10)

\* The EMA of add_iteration: alpha = 0.3.
EmaUpdate(ema, score) == 3 * score * (EmaScale \div 1000) + 7 * (ema \div 10)

\* add_iteration that puts the new feedback before the accumulated one.
mut_add_iteration(S, it, t) ==
    [S EXCEPT !.current_round = S.current_round + 1,
              !.iterations = Append(S.iterations, it),
              !.cumulative_feedback = it.feedback \o S.cumulative_feedback,
              !.ema_quality = EmaUpdate(S.ema_quality, it.quality_score),
              !.updated_at = t]

\* RefinementState.add_iteration: model_copy(update=...) runs no validator.
add_iteration(S, it, t) ==
    [S EXCEPT !.current_round = S.current_round + 1,
              !.iterations = Append(S.iterations, it),
              !.cumulative_feedback = S.cumulative_feedback \o it.feedback,
              !.ema_quality = EmaUpdate(S.ema_quality, it.quality_score),
              !.updated_at = t]

\* IterationRecord as built by refine_until_sufficient.
IterationRecord(r, t, d) ==
    [round |-> r, timestamp |-> t, quality_score |-> d.quality_score,
     decision |-> d.decision, feedback |-> d.feedback]

\* The state _load_or_create_state creates when no document exists.
FreshState(e, t) ==
    [current_round |-> 0, max_rounds |-> e.max_rounds, iterations |-> <<>>,
     cumulative_feedback |-> <<>>, ema_quality |-> 0,
     quality_threshold |-> e.quality_threshold,
     early_stopping_threshold |-> e.early_stop_threshold,
     started_at |-> t, updated_at |-> t]

-----------------------------------------------------------------------------
(* The verifier as the loop sees it: verifier.verify(...).output_data is    *)
(* passed to VerificationDecision.model_validate.                          *)

Scores == {0, 50, 100}
\* Feedback lists: none, or one text, which names the score it goes with.
Feedbacks == {<<>>, <<"fa">>, <<"fb">>}

VerifierOutputs ==
    {d \in [decision : {"sufficient", "insufficient"}, quality_score : Scores,
            feedback : Feedbacks] :
        /\ d.feedback = <<"fb">> => d.quality_score = 50
        /\ d.feedback = <<"fa">> => d.quality_score # 50}

\* VerificationDecision.validate_decision_matches_quality_score: the
\* threshold is the literal 0.85.
DecisionDefaultThreshold == 85

validate_decision_matches_quality_score(d) ==
    /\ ~(d.decision = "sufficient" /\ d.quality_score < DecisionDefaultThreshold)
    /\ ~(d.decision = "insufficient" /\ d.quality_score >= DecisionDefaultThreshold)

\* VerificationDecision.validate_feedback_required_if_insufficient
validate_feedback_required_if_insufficient(d) ==
    ~(d.decision = "insufficient" /\ Len(d.feedback) = 0)

VerificationDecisionValid(d) ==
    /\ d.quality_score >= 0 /\ d.quality_score <= 100
    /\ validate_decision_matches_quality_score(d)
    /\ validate_feedback_required_if_insufficient(d)

-----------------------------------------------------------------------------
(* Documents a refinement call can find in the state directory.            *)

PersistedIteration(r) ==
    [round |-> r, timestamp |-> 0, quality_score |-> 50,
     decision |-> "insufficient", feedback |-> <<"f0">>]

\* n iteration records numbered from first.
PersistedIterations(n, first) == [i \in 1..n |-> PersistedIteration(first + i - 1)]

RECURSIVE FeedbackOf(_)
FeedbackOf(its) ==
    IF its = <<>> THEN <<>> ELSE its[1].feedback \o FeedbackOf(Tail(its))

PersistedEma == {0, FromScore(50)}
PersistedThresholds == {25, 85}

PersistedCandidates ==
    { [current_round |-> c, max_rounds |-> m,
       iterations |-> PersistedIterations(n, f),
       cumulative_feedback |-> FeedbackOf(PersistedIterations(n, f)),
       ema_quality |-> e, quality_threshold |-> q,
       early_stopping_threshold |-> EarlyStopDefault,
       started_at |-> 0, updated_at |-> 0] :
      c \in 0..MaxRounds, m \in 1..MaxRounds, n \in 0..MaxPersistIters,
      f \in {1, 2}, e \in PersistedEma, q \in PersistedThresholds }

\* Thresholds refinement.conf can set for a phase, besides the defaults.
ConfiguredThresholds == {25}
ConfiguredEarlyStops == {30}

EngineConfigs ==
    { [max_rounds |-> m, quality_threshold |-> q,
       early_stop_threshold |-> EarlyStopDefault] :
      m \in 1..MaxRounds,
      q \in {_get_quality_threshold(p) : p \in Phases} \cup ConfiguredThresholds }
    \cup
    { [max_rounds |-> m, quality_threshold |-> q, early_stop_threshold |-> e] :
      m \in 1..MaxRounds, q \in ConfiguredThresholds, e \in ConfiguredEarlyStops }

-----------------------------------------------------------------------------
(* RefinementEngine.refine_until_sufficient, one step per statement group. *)

\* A state that ran out of rounds below its threshold: the run that wrote it
\* left an escalation document beside it.
Exhausted(S) ==
    /\ S.current_round >= S.max_rounds
    /\ S.ema_quality < FromScore(S.quality_threshold)

RInit ==
    /\ rpc = "start"
    /\ engine \in EngineConfigs
    /\ hasHook \in BOOLEAN
    /\ disk \in {NoDoc} \cup PersistedCandidates
    /\ escDoc = IF disk # NoDoc /\ Exhausted(disk) THEN disk ELSE NoDoc
    /\ state = NoDoc
    /\ escWrites = 0
    /\ pending = NoDoc
    /\ now = 0
    /\ verifyCalls = 0
    /\ hookCalls = 0
    /\ startRound = 0
    /\ loaded = FALSE
    /\ exitVia = "none"

\* _load_or_create_state: load_from_file validates the document.
_load_or_create_state ==
    /\ rpc = "start"
    /\ IF disk = NoDoc
       THEN /\ state' = FreshState(engine, now)
            /\ rpc' = "guard"
       ELSE IF RefinementStateValid(disk)
            THEN /\ state' = disk
                 /\ rpc' = "guard"
            ELSE /\ state' = state
                 /\ rpc' = "raised"
    /\ startRound' = IF state' = NoDoc THEN 0 ELSE state'.current_round
    /\ loaded' = (disk # NoDoc)
    /\ UNCHANGED <<engine, hasHook, disk, escDoc, escWrites, pending, now,
                   verifyCalls, hookCalls, exitVia>>

\* while state.can_continue(): ... ; return state
LoopGuard ==
    /\ rpc = "guard"
    /\ IF can_continue(state)
       THEN rpc' = "verify" /\ exitVia' = exitVia
       ELSE rpc' = "returned" /\ exitVia' = "guard"
    /\ UNCHANGED <<engine, hasHook, state, disk, escDoc, escWrites, pending, now,
                   verifyCalls, hookCalls, startRound, loaded>>

\* The output_data of the output verify() returns when it has caught an
\* exception (success = False).
VerifierErrorOutput == [error |-> "verification failed"]

\* VerificationDecision.model_validate(decision_data): decision and
\* quality_score are required fields.
model_validate(decision_data) ==
    /\ {"decision", "quality_score"} \subseteq DOMAIN decision_data
    /\ VerificationDecisionValid(decision_data)

\* _verify_artifact that takes an output it cannot validate for a failed
\* verification of quality 0.
mut_VerifyWith(decision_data) ==
    /\ rpc = "verify"
    /\ verifyCalls' = verifyCalls + 1
    /\ pending' = IF model_validate(decision_data) THEN decision_data
                  ELSE [decision |-> "insufficient", quality_score |-> 0,
                        feedback |-> <<"fa">>]
    /\ rpc' = "record"
    /\ UNCHANGED <<engine, hasHook, state, disk, escDoc, escWrites, now,
                   hookCalls, startRound, loaded, exitVia>>

\* _verify_artifact with a verifier whose output carries decision_data.
VerifyWith(decision_data) ==
    /\ rpc = "verify"
    /\ verifyCalls' = verifyCalls + 1
    /\ IF model_validate(decision_data)
       THEN pending' = decision_data /\ rpc' = "record"
       ELSE pending' = pending /\ rpc' = "raised"
    /\ UNCHANGED <<engine, hasHook, state, disk, escDoc, escWrites, now,
                   hookCalls, startRound, loaded, exitVia>>

\* _verify_artifact: the verifier is invoked; its output_data is validated.
_verify_artifact ==
    \E d \in VerifierOutputs \cup {VerifierErrorOutput} : VerifyWith(d)

\* The iteration is recorded in memory and save_to_file is left out.
mut_RecordIteration ==
    /\ rpc = "record"
    /\ \E t \in now..Min(now + 1, MaxTime) :
          /\ now' = t
          /\ state' = add_iteration(
                 state, IterationRecord(state.current_round + 1, t, pending), t)
    /\ rpc' = "check"
    /\ UNCHANGED <<engine, hasHook, disk, escDoc, escWrites, pending,
                   verifyCalls, hookCalls, startRound, loaded, exitVia>>

\* iteration = IterationRecord(...); state = state.add_iteration(iteration);
\* state.save_to_file(...)
RecordIteration ==
    /\ rpc = "record"
    /\ \E t \in now..Min(now + 1, MaxTime) :
          /\ now' = t
          /\ state' = add_iteration(
                 state, IterationRecord(state.current_round + 1, t, pending), t)
    /\ disk' = state'
    /\ rpc' = "check"
    /\ UNCHANGED <<engine, hasHook, escDoc, escWrites, pending, verifyCalls,
                   hookCalls, startRound, loaded, exitVia>>

\* The three stop checks after the save, then the hook.
StopChecks ==
    /\ rpc = "check"
    /\ IF should_early_stop(state)
       THEN /\ rpc' = "returned" /\ exitVia' = "early_stop"
            /\ UNCHANGED <<escDoc, escWrites>>
       ELSE IF should_stop(state)
               /\ state.ema_quality >= FromScore(engine.quality_threshold)
       THEN /\ rpc' = "returned" /\ exitVia' = "quality"
            /\ UNCHANGED <<escDoc, escWrites>>
       ELSE IF state.current_round >= engine.max_rounds
       THEN /\ rpc' = "returned" /\ exitVia' = "escalated"
            /\ escDoc' = state
            /\ escWrites' = escWrites + 1
       ELSE /\ rpc' = IF hasHook THEN "hook" ELSE "guard"
            /\ UNCHANGED <<escDoc, escWrites, exitVia>>
    /\ UNCHANGED <<engine, hasHook, state, disk, pending, now, verifyCalls,
                   hookCalls, startRound, loaded>>

\* refinement_fn(state)
RefinementHook ==
    /\ rpc = "hook"
    /\ hookCalls' = hookCalls + 1
    /\ rpc' = "guard"
    /\ UNCHANGED <<engine, hasHook, state, disk, escDoc, escWrites, pending, now,
                   verifyCalls, startRound, loaded, exitVia>>

-----------------------------------------------------------------------------
(* sdd/agents/engineering: AutoDebugAgent.debug.                           *)
(* failed_code is a sequence of characters, abbreviated to the ones the    *)
(* repair strategies and the validation look at: "(" ")" ":" "+" "." " ",  *)
(* "w" (a word character), "K" (one of for|if|while|def|class), "I" (the   *)
(* word int), "S" (the word str), "o" (any other character).  stack_trace  *)
(* is a sequence of lines, each one of the phrases the classifier and the  *)
(* repair strategies search for, or " ", a line of white space only.        *)

VARIABLES
    dpc,          \* position of the debug() call
    din,          \* input_data: failed_code, stack_trace, max_iterations
    attempts,     \* the attempts list
    current_code, \* current_code
    resolved,     \* resolved
    iteration,    \* iteration
    dout,         \* the output debug() returns (None before it returns)
    sessionDoc    \* <sessions_dir>/<task_id>.json (None when absent)

dvars == <<dpc, din, attempts, current_code, resolved, iteration, dout, sessionDoc>>

None == <<>>
Some(x) == <<x>>

\* DebugAttempt.iteration (le=5) and DebugSession.attempts (max_length=5).
MaxDebugIterations == 5

\* Largest max_iterations a caller passes in the model.
MaxIterInput == 6

Has(s, c) == \E i \in 1..Len(s) : s[i] = c
Count(s, c) == Cardinality({i \in 1..Len(s) : s[i] = c})
HasPair(s, a, b) == \E i \in 1..(Len(s) - 1) : s[i] = a /\ s[i + 1] = b
Repeat(c, n) == [i \in 1..n |-> c]
IsWord(c) == c \in {"w", "K", "I", "S"}
IsSpace(c) == c = " "

\* Last index of the run of characters satisfying the test that starts at i
\* (i - 1 when s[i] does not satisfy it).
RECURSIVE WordRunEnd(_, _)
WordRunEnd(s, i) ==
    IF i <= Len(s) /\ IsWord(s[i]) THEN WordRunEnd(s, i + 1) ELSE i - 1

RECURSIVE SpaceRunEnd(_, _)
SpaceRunEnd(s, i) ==
    IF i <= Len(s) /\ IsSpace(s[i]) THEN SpaceRunEnd(s, i + 1) ELSE i - 1

MinOf(S) == CHOOSE x \in S : \A y \in S : x <= y

\* The error patterns in the order of _initialize_error_patterns, and the
\* phrases of the model that each pattern's regular expressions match.
PatternOrder == <<"syntax", "type", "name", "null", "import", "logic">>

PatternPhrases(p) ==
    CASE p = "syntax" -> {"SyntaxError", "invalid syntax"}
      [] p = "type" -> {"TypeError", "unsupported operand type"}
      [] p = "name" -> {"NameError", "name 'x' is not defined"}
      [] p = "null" -> {"NoneType"}
      [] p = "import" -> {"ImportError", "No module named 'm'"}
      [] p = "logic" -> {"AssertionError"}

TraceHas(trace, phrase) == Has(trace, phrase)

\* AutoDebugAgent._classify_error: the first pattern with a matching phrase.
_classify_error(trace) ==
    LET hits == {k \in 1..Len(PatternOrder) :
                    \E ph \in PatternPhrases(PatternOrder[k]) : TraceHas(trace, ph)}
    IN IF hits = {} THEN "unknown" ELSE PatternOrder[MinOf(hits)]

IsBlankLine(line) == line = " "

\* str.strip() on the trace: the blank lines at both ends are dropped.
RECURSIVE StripTrace(_)
StripTrace(trace) ==
    IF trace = <<>> THEN <<>>
    ELSE IF IsBlankLine(trace[1]) THEN StripTrace(Tail(trace))
    ELSE IF IsBlankLine(trace[Len(trace)])
    THEN StripTrace(SubSeq(trace, 1, Len(trace) - 1))
    ELSE trace

\* AutoDebugAgent._extract_error_message: the last line of the stripped
\* trace ("" when nothing is left: "".split() yields one empty line).
_extract_error_message(trace) ==
    LET lines == StripTrace(trace)
    IN IF lines = <<>> THEN "" ELSE lines[Len(lines)]

\* re.sub(r'(for|if|while|def|class)\s+([^\:]+)$', r'\1 \2:', code): the
\* code holds no ":" here, so the first keyword that is followed by white
\* space and one more character matches up to the end of the code.
AddColon(code) ==
    LET starts == {k \in 1..Len(code) :
                      /\ code[k] = "K"
                      /\ k + 2 <= Len(code)
                      /\ IsSpace(code[k + 1])}
    IN IF starts = {} THEN code
       ELSE LET k == MinOf(starts)
                e == Min(SpaceRunEnd(code, k + 1), Len(code) - 1)
            IN SubSeq(code, 1, k) \o <<" ">>
                 \o SubSeq(code, e + 1, Len(code)) \o <<":">>

\* AutoDebugAgent._repair_syntax_error
_repair_syntax_error(code, trace) ==
    IF TraceHas(trace, "invalid syntax") /\ ~Has(code, ":")
    THEN [code |-> AddColon(code),
          action |-> "Add missing colon after control structure"]
    ELSE IF Count(code, "(") > Count(code, ")")
    THEN [code |-> code \o Repeat(")", Count(code, "(") - Count(code, ")")),
          action |-> "Close unclosed parentheses"]
    ELSE [code |-> code, action |-> "Unable to auto-fix syntax error"]

\* re.sub(r"(\w+)\s*\+\s*(\w+)", r"int(\1) + int(\2)", code, count=1)
AddIntConversion(code) ==
    LET starts == {k \in 1..Len(code) :
                      /\ IsWord(code[k])
                      /\ LET a == WordRunEnd(code, k)
                             b == SpaceRunEnd(code, a + 1)
                         IN /\ b + 1 <= Len(code)
                            /\ code[b + 1] = "+"
                            /\ LET c == SpaceRunEnd(code, b + 2)
                               IN c + 1 <= Len(code) /\ IsWord(code[c + 1])}
    IN IF starts = {} THEN code
       ELSE LET k == MinOf(starts)
                a == WordRunEnd(code, k)
                b == SpaceRunEnd(code, a + 1)
                c == SpaceRunEnd(code, b + 2)
                d == WordRunEnd(code, c + 1)
            IN SubSeq(code, 1, k - 1)
                 \o <<"I", "(">> \o SubSeq(code, k, a) \o <<")", " ", "+", " ">>
                 \o <<"I", "(">> \o SubSeq(code, c + 1, d) \o <<")">>
                 \o SubSeq(code, d + 1, Len(code))

\* AutoDebugAgent._repair_type_error
_repair_type_error(code, trace) ==
    IF /\ TraceHas(trace, "unsupported operand type")
       /\ TraceHas(trace, "int")
       /\ TraceHas(trace, "str")
    THEN [code |-> AddIntConversion(code),
          action |-> "Add type conversion (str to int)"]
    ELSE [code |-> code, action |-> "Unable to auto-fix type error"]

\* AutoDebugAgent._repair_name_error: "<name> = None  # Auto-initialized\n"
\* is put in front of the code.
_repair_name_error(code, trace) ==
    IF TraceHas(trace, "name 'x' is not defined")
    THEN [code |-> <<"w", " ", "o", " ", "w", " ", "o", " ", "w", "o", "w", " ">> \o code,
          action |-> "Initialize undefined variable: x"]
    ELSE [code |-> code, action |-> "Unable to auto-fix name error"]

\* re.sub(r'(\w+)\.', r'(\1 or {}).', code, count=1)
AddNoneCheck(code) ==
    LET starts == {k \in 1..Len(code) :
                      /\ IsWord(code[k])
                      /\ WordRunEnd(code, k) + 1 <= Len(code)
                      /\ code[WordRunEnd(code, k) + 1] = "."}
    IN IF starts = {} THEN code
       ELSE LET k == MinOf(starts)
                a == WordRunEnd(code, k)
            IN SubSeq(code, 1, k - 1) \o <<"(">> \o SubSeq(code, k, a)
                 \o <<" ", "w", " ", "o", ")", ".">>
                 \o SubSeq(code, a + 2, Len(code))

\* AutoDebugAgent._repair_null_error
_repair_null_error(code, trace) ==
    [code |-> AddNoneCheck(code),
     action |-> "Add None check before attribute access"]

\* AutoDebugAgent._repair_import_error
_repair_import_error(code, trace) ==
    IF TraceHas(trace, "No module named 'm'")
    THEN [code |-> code, action |-> "Install missing module: pip install m"]
    ELSE [code |-> code, action |-> "Unable to auto-fix import error"]

\* AutoDebugAgent._repair_logic_error
_repair_logic_error(code, trace) ==
    [code |-> code, action |-> "Logic error requires manual review"]

\* AutoDebugAgent._repair_unknown_error
_repair_unknown_error(code, trace) ==
    [code |-> code, action |-> "Unknown error requires manual debugging"]

\* AutoDebugAgent._generate_repair
_generate_repair(code, trace, pattern) ==
    CASE pattern = "syntax" -> _repair_syntax_error(code, trace)
      [] pattern = "type" -> _repair_type_error(code, trace)
      [] pattern = "name" -> _repair_name_error(code, trace)
      [] pattern = "null" -> _repair_null_error(code, trace)
      [] pattern = "import" -> _repair_import_error(code, trace)
      [] pattern = "logic" -> _repair_logic_error(code, trace)
      [] OTHER -> _repair_unknown_error(code, trace)

\* _validate_repair that also lets a repaired name error pass.
mut_validate_repair(code, pattern) ==
    IF pattern = "syntax" /\ (Has(code, ":") \/ Has(code, ")")) THEN "passed"
    ELSE IF pattern = "type" /\ (HasPair(code, "I", "(") \/ HasPair(code, "S", "("))
    THEN "passed"
    ELSE IF pattern = "name" THEN "passed"
    ELSE "failed"

\* AutoDebugAgent._validate_repair
_validate_repair(code, pattern) ==
    IF pattern = "syntax" /\ (Has(code, ":") \/ Has(code, ")")) THEN "passed"
    ELSE IF pattern = "type" /\ (HasPair(code, "I", "(") \/ HasPair(code, "S", "("))
    THEN "passed"
    ELSE "failed"

\* DebugAttempt without the upper bound on iteration.
mut_DebugAttemptValid(a) ==
    /\ a.iteration >= 1
    /\ a.error_message # ""
    /\ Len(a.repaired_code) >= 1

\* DebugAttempt(iteration=..., error_message=..., repaired_code=...): the
\* field constraints that depend on the run (the repair actions and the
\* reasoning texts are fixed texts longer than their min_length).
DebugAttemptValid(a) ==
    /\ a.iteration >= 1
    /\ a.iteration <= MaxDebugIterations
    /\ a.error_message # ""
    /\ Len(a.repaired_code) >= 1

validate_total_iterations_matches_attempts(D) == D.total_iterations = Len(D.attempts)
validate_success_requires_final_code(D) ==
    D.success => (D.final_code # None /\ D.final_code[1] # <<>>)
validate_escalated_means_not_successful(D) == ~(D.escalated /\ D.success)
validate_iteration_sequence(D) ==
    \A i \in 1..Len(D.attempts) : D.attempts[i].iteration = i
validate_escalation_context(D) == D.escalated => D.escalation_context # None
validate_repair_summary(D) == D.success => D.repair_summary # None
validate_error_pattern_matches_first_attempt(D) ==
    D.attempts # <<>> => D.error_pattern = D.attempts[1].error_pattern

\* DebugSession without the lower bounds on attempts and total_iterations.
mut_DebugSessionValid(D) ==
    /\ Len(D.original_code) >= 1
    /\ Len(D.attempts) <= MaxDebugIterations
    /\ D.total_iterations <= MaxDebugIterations
    /\ validate_total_iterations_matches_attempts(D)
    /\ validate_success_requires_final_code(D)
    /\ validate_escalated_means_not_successful(D)
    /\ validate_iteration_sequence(D)
    /\ validate_escalation_context(D)
    /\ validate_repair_summary(D)
    /\ validate_error_pattern_matches_first_attempt(D)

\* DebugSession(...): field constraints, then the model validators.
DebugSessionValid(D) ==
    /\ Len(D.original_code) >= 1
    /\ Len(D.attempts) >= 1
    /\ Len(D.attempts) <= MaxDebugIterations
    /\ D.total_iterations >= 1
    /\ D.total_iterations <= MaxDebugIterations
    /\ validate_total_iterations_matches_attempts(D)
    /\ validate_success_requires_final_code(D)
    /\ validate_escalated_means_not_successful(D)
    /\ validate_iteration_sequence(D)
    /\ validate_escalation_context(D)
    /\ validate_repair_summary(D)
    /\ validate_error_pattern_matches_first_attempt(D)

\* escalation_context of debug(), built when escalated.
EscalationContext(as) ==
    LET pattern == IF as # <<>> THEN as[1].error_pattern ELSE "unknown"
    IN [original_error |-> IF as # <<>> THEN as[1].error_message ELSE "Unknown",
        error_pattern |-> pattern,
        total_iterations |-> Len(as),
        attempted_repairs |->
            [i \in 1..Len(as) |-> [iteration |-> as[i].iteration,
                                   action |-> as[i].repair_action,
                                   result |-> as[i].test_result]],
        last_error |-> IF as # <<>> THEN as[Len(as)].error_message ELSE "Unknown",
        reason |-> [pattern |-> pattern, iterations |-> Len(as)]]

\* repair_summary of debug(): "Fixed <pattern> error in iteration <n>.
\* Action: <action>", from the first passed attempt.
RepairSummary(as, res) ==
    LET passed == {i \in 1..Len(as) : as[i].test_result = "passed"}
    IN IF res /\ as # <<>> /\ passed # {}
       THEN Some([pattern |-> as[1].error_pattern,
                  iteration |-> as[MinOf(passed)].iteration,
                  action |-> as[MinOf(passed)].repair_action])
       ELSE None

\* A session whose final_code is the code debug() was given.
mut_BuildSession(input, as, code, res, iter) ==
    LET escalated == ~res /\ iter > input.max_iterations
    IN [original_code |-> input.failed_code,
        final_code |-> IF res THEN Some(input.failed_code) ELSE None,
        attempts |-> as,
        success |-> res,
        escalated |-> escalated,
        total_iterations |-> Len(as),
        resolution_time_seconds |-> IF res THEN Some("elapsed") ELSE None,
        error_pattern |-> IF as # <<>> THEN as[1].error_pattern ELSE "unknown",
        escalation_context |-> IF escalated THEN Some(EscalationContext(as)) ELSE None,
        repair_summary |-> RepairSummary(as, res)]

\* The DebugSession debug() constructs after the loop.
BuildSession(input, as, code, res, iter) ==
    LET escalated == ~res /\ iter > input.max_iterations
    IN [original_code |-> input.failed_code,
        final_code |-> IF res THEN Some(code) ELSE None,
        attempts |-> as,
        success |-> res,
        escalated |-> escalated,
        total_iterations |-> Len(as),
        resolution_time_seconds |-> IF res THEN Some("elapsed") ELSE None,
        error_pattern |-> IF as # <<>> THEN as[1].error_pattern ELSE "unknown",
        escalation_context |-> IF escalated THEN Some(EscalationContext(as)) ELSE None,
        repair_summary |-> RepairSummary(as, res)]

FailedCodes ==
    {<<>>,
     <<"w", "(", "w">>,
     <<"w", "(", "(", "w", ")">>,
     <<"K", " ", "w">>,
     <<"K">>,
     <<"w", ":">>,
     <<"w", "+", "w">>,
     <<"w", " ", "+", " ", "w">>,
     <<"w", ".", "w">>,
     <<"S", "(", "w", ")">>,
     <<"w">>}

StackTraces ==
    {<<>>,
     <<"SyntaxError">>,
     <<"other", "invalid syntax">>,
     <<"TypeError">>,
     <<"unsupported operand type", "int", "str">>,
     <<"NameError">>,
     <<"name 'x' is not defined">>,
     <<"NoneType">>,
     <<"No module named 'm'">>,
     <<"ImportError">>,
     <<"AssertionError">>,
     <<"SyntaxError", "TypeError">>,
     <<"AssertionError", " ">>,
     <<" ">>,
     <<"other">>}

DebugInputs ==
    [failed_code : FailedCodes, stack_trace : StackTraces,
     max_iterations : 0..MaxIterInput]

NoOutput == [kind |-> "none"]
ErrorOutput == [kind |-> "error"]
SessionOutput(D) == [kind |-> "session", session |-> D]

DInit ==
    /\ dpc = "start"
    /\ din \in DebugInputs
    /\ attempts = <<>>
    /\ current_code = <<>>
    /\ resolved = FALSE
    /\ iteration = 1
    /\ dout = NoOutput
    /\ sessionDoc = None

\* debug(), lines 176-189: read the input, reject an empty failed_code or
\* stack_trace (the ValueError becomes the error output), set up the loop.
DebugStart ==
    /\ dpc = "start"
    /\ IF din.failed_code = <<>> \/ din.stack_trace = <<>>
       THEN /\ dout' = ErrorOutput
            /\ dpc' = "returned"
            /\ UNCHANGED <<attempts, current_code, resolved, iteration>>
       ELSE /\ attempts' = <<>>
            /\ current_code' = din.failed_code
            /\ resolved' = FALSE
            /\ iteration' = 1
            /\ dpc' = "loop"
            /\ UNCHANGED dout
    /\ UNCHANGED <<din, sessionDoc>>

\* The while condition of debug().
LoopContinues(iter, maxIter, res) == iter <= maxIter /\ ~res

\* A DebugAttempt that is classified anew, as unknown, after the first pass.
mut_MakeAttempt(iter, code, trace) ==
    LET error_pattern == IF iter = 1 THEN _classify_error(trace) ELSE "unknown"
        repair == _generate_repair(code, trace, error_pattern)
    IN [iteration |-> iter,
        error_pattern |-> error_pattern,
        error_message |-> _extract_error_message(trace),
        stack_trace |-> trace,
        repair_action |-> repair.action,
        repaired_code |-> repair.code,
        test_result |-> _validate_repair(repair.code, error_pattern)]

\* The DebugAttempt one pass of the loop constructs: classify, generate the
\* repair, validate it (lines 195-221).
MakeAttempt(iter, code, trace) ==
    LET error_pattern == _classify_error(trace)
        repair == _generate_repair(code, trace, error_pattern)
    IN [iteration |-> iter,
        error_pattern |-> error_pattern,
        error_message |-> _extract_error_message(trace),
        stack_trace |-> trace,
        repair_action |-> repair.action,
        repaired_code |-> repair.code,
        test_result |-> _validate_repair(repair.code, error_pattern)]

\* One pass of the while loop of debug(), lines 191-231.
DebugIteration ==
    /\ dpc = "loop"
    /\ LoopContinues(iteration, din.max_iterations, resolved)
    /\ \E attempt \in {MakeAttempt(iteration, current_code, din.stack_trace)} :
          IF ~DebugAttemptValid(attempt)
          THEN /\ dout' = ErrorOutput
               /\ dpc' = "returned"
               /\ UNCHANGED <<attempts, current_code, resolved, iteration>>
          ELSE /\ attempts' = Append(attempts, attempt)
               /\ current_code' = attempt.repaired_code
               /\ resolved' = (attempt.test_result = "passed")
               /\ iteration' = IF attempt.test_result = "passed"
                               THEN iteration ELSE iteration + 1
               /\ UNCHANGED <<dout, dpc>>
    /\ UNCHANGED <<din, sessionDoc>>

\* debug() after the loop, lines 233-310: build the session, persist it and
\* return it; a session that fails validation becomes the error output.
DebugFinish ==
    /\ dpc = "loop"
    /\ ~LoopContinues(iteration, din.max_iterations, resolved)
    /\ \E D \in {BuildSession(din, attempts, current_code, resolved, iteration)} :
          IF DebugSessionValid(D)
          THEN /\ sessionDoc' = Some(D)
               /\ dout' = SessionOutput(D)
          ELSE /\ dout' = ErrorOutput
               /\ UNCHANGED sessionDoc
    /\ dpc' = "returned"
    /\ UNCHANGED <<din, attempts, current_code, resolved, iteration>>

-----------------------------------------------------------------------------
(* sdd/agents/quality: VerificationAgent.verify.                           *)
(* The artifact's content is the set of the texts the evaluations search   *)
(* for that occur in it.  Dimension scores are in units of 1/60 and the    *)
(* quality score in units of 1/1200, so that thirds, halves, 0.85, 0.90    *)
(* and the weights 0.25, 0.30, 0.25, 0.20 are exact.                       *)

VARIABLES
    vpc,         \* position of the verify() call
    vin,         \* the input: phase threshold, artifact type and content, spec
    vout,        \* the output verify() returns
    decisionDoc  \* the persisted decision (None when absent)

vvars == <<vpc, vin, vout, decisionDoc>>

DimScale == 60
QualityScale == 20 * DimScale
ToQuality(hundredths) == hundredths * (QualityScale \div 100)

Dimensions ==
    <<"completeness", "constitutional_compliance", "test_coverage", "spec_alignment">>

\* required_sections of _evaluate_completeness
required_sections(artifact_type) ==
    CASE artifact_type = "spec" ->
            {"## Overview", "## User Stories", "## Acceptance Criteria"}
      [] artifact_type = "plan" -> {"## Phase 0", "## Phase 1", "## Technical Approach"}
      [] artifact_type = "code" -> {"def ", "class ", "import "}
      [] artifact_type = "tests" -> {"def test_", "assert ", "import pytest"}
      [] OTHER -> {}

\* VerificationAgent._evaluate_completeness
_evaluate_completeness(content, artifact_type) ==
    LET sections == required_sections(artifact_type)
    IN IF sections = {} THEN DimScale
       ELSE (Cardinality(sections \cap content) * DimScale) \div Cardinality(sections)

\* VerificationAgent._evaluate_constitutional_compliance: the checks that
\* apply to the artifact type, each with the texts that satisfy it.
compliance_checks(artifact_type) ==
    (IF artifact_type \in {"plan", "code"}
     THEN {{"library", "standalone"}, {"test", "tdd"}} ELSE {})
    \cup (IF artifact_type = "plan" THEN {{"contract", "api"}} ELSE {})

_evaluate_constitutional_compliance(content, artifact_type) ==
    LET checks == compliance_checks(artifact_type)
        met == {c \in checks : c \cap content # {}}
    IN IF checks = {} THEN DimScale
       ELSE (Cardinality(met) * DimScale) \div Cardinality(checks)

\* VerificationAgent._evaluate_test_coverage
_evaluate_test_coverage(content, artifact_type) ==
    IF artifact_type \notin {"code", "tests"} THEN DimScale
    ELSE IF "def " \notin content THEN 0
    ELSE IF "def test_" \in content THEN 51
    ELSE 0

\* VerificationAgent._evaluate_spec_alignment: matching is the number of
\* the six key terms in both the spec and the artifact, -1 when there is
\* no spec to read.
_evaluate_spec_alignment(matching) ==
    IF matching < 0 THEN 54
    ELSE Min(DimScale, (matching * DimScale) \div 6 + DimScale \div 2)

\* VerificationAgent._evaluate_dimensions
_evaluate_dimensions(input) ==
    [completeness |-> _evaluate_completeness(input.content, input.artifact_type),
     constitutional_compliance |->
        _evaluate_constitutional_compliance(input.content, input.artifact_type),
     test_coverage |-> _evaluate_test_coverage(input.content, input.artifact_type),
     spec_alignment |-> _evaluate_spec_alignment(input.matching_terms)]

\* VerificationAgent._calculate_quality_score: weights 0.25, 0.30, 0.25, 0.20.
_calculate_quality_score(scores) ==
    5 * scores.completeness + 6 * scores.constitutional_compliance
      + 5 * scores.test_coverage + 4 * scores.spec_alignment

\* The threshold _make_decision uses when quality_thresholds names none.
MakeDecisionDefault == 85

\* The threshold _make_decision reads from quality_thresholds (hundredths;
\* -1 when the caller passes no thresholds).
DecisionThreshold(input) ==
    IF input.threshold < 0 THEN MakeDecisionDefault ELSE input.threshold

\* VerificationAgent._make_decision
_make_decision(scores, quality_score, input) ==
    LET threshold == DecisionThreshold(input)
        below == SelectSeq(Dimensions,
                           LAMBDA d : scores[d] * 100 < threshold * DimScale)
        passed == SelectSeq(Dimensions,
                            LAMBDA d : scores[d] * 100 >= threshold * DimScale)
    IN [decision |-> IF quality_score >= ToQuality(threshold)
                     THEN "sufficient" ELSE "insufficient",
        quality_score |-> quality_score,
        dimension_scores |-> scores,
        feedback |-> below,
        violations |-> below,
        passed_checks |-> passed]

\* VerificationDecision(...): field constraints and validators.
VerificationDecisionChecks(d) ==
    /\ d.quality_score >= 0
    /\ d.quality_score <= QualityScale
    /\ \A i \in 1..Len(Dimensions) :
          d.dimension_scores[Dimensions[i]] \in 0..DimScale
    /\ ~(d.decision = "sufficient"
         /\ d.quality_score < ToQuality(DecisionDefaultThreshold))
    /\ ~(d.decision = "insufficient"
         /\ d.quality_score >= ToQuality(DecisionDefaultThreshold))
    /\ ~(d.decision = "insufficient" /\ d.feedback = <<>>)

ArtifactTypes == {"plan", "code"}

\* The texts the evaluations of an artifact type search for.
Markers(artifact_type) ==
    required_sections(artifact_type) \cup {"library", "test", "contract"}
        \cup (IF artifact_type = "code" THEN {"def test_"} ELSE {})

\* A text that contains "def test_" contains "def " and "test".
ContentClosed(content) ==
    "def test_" \in content => {"def ", "test"} \subseteq content

VerifierInputs ==
    {[threshold |-> t, artifact_exists |-> x, artifact_type |-> a,
      content |-> c, matching_terms |-> m] :
        t \in {-1} \cup {_get_quality_threshold(ph) : ph \in Phases},
        x \in BOOLEAN,
        a \in ArtifactTypes,
        c \in {c0 \in SUBSET (Markers("plan") \cup Markers("code")) : ContentClosed(c0)},
        m \in {-1, 0, 2, 3}}

VInit ==
    /\ vpc = "start"
    /\ vin \in {i \in VerifierInputs : i.content \subseteq Markers(i.artifact_type)}
    /\ vout = NoOutput
    /\ decisionDoc = None

VIdle ==
    /\ vpc = "idle"
    /\ vin = [threshold |-> -1, artifact_exists |-> FALSE, artifact_type |-> "plan",
              content |-> {}, matching_terms |-> -1]
    /\ vout = NoOutput
    /\ decisionDoc = None

\* VerificationAgent.verify: a missing artifact and a decision that fails
\* validation both end in the error output.
verify ==
    /\ vpc = "start"
    /\ IF ~vin.artifact_exists
       THEN /\ vout' = ErrorOutput
            /\ UNCHANGED decisionDoc
       ELSE \E d \in {_make_decision(_evaluate_dimensions(vin),
                                     _calculate_quality_score(_evaluate_dimensions(vin)),
                                     vin)} :
               IF VerificationDecisionChecks(d)
               THEN /\ decisionDoc' = Some(d)
                    /\ vout' = [kind |-> "decision", decision |-> d]
               ELSE /\ vout' = ErrorOutput
                    /\ UNCHANGED decisionDoc
    /\ vpc' = "returned"
    /\ UNCHANGED vin

-----------------------------------------------------------------------------
(* sdd/agents/architecture: RouterAgent.route.                             *)
(* The task description is reduced to what route() reads from it: whether  *)
(* it is empty, its word count, how many of the complexity keywords and    *)
(* whether any dependency keyword occurs in it.  Complexity scores are in  *)
(* thousandths.                                                            *)

VARIABLES
    tpc,       \* position of the route() call
    tin,       \* input_data: task description, domains_detected, current_state
    tout,      \* the output route() returns
    routeDoc   \* the persisted routing decision (None when absent)

tvars == <<tpc, tin, tout, routeDoc>>

\* Longest domains_detected list of the model.
MaxDomains == 4

Range(seq) == {seq[i] : i \in 1..Len(seq)}

\* RouterAgent._load_domain_agent_map ("" when the domain is not mapped)
domain_agent_map(domain) ==
    CASE domain = "frontend" -> "engineering.frontend_specialist"
      [] domain = "backend" -> "architecture.backend_architect"
      [] domain = "database" -> "data.database_specialist"
      [] domain = "testing" -> "quality.testing_specialist"
      [] domain = "security" -> "quality.security_specialist"
      [] domain = "performance" -> "operations.performance_engineer"
      [] domain = "devops" -> "operations.devops_engineer"
      [] domain = "specification" -> "product.specification_agent"
      [] domain = "planning" -> "product.planning_agent"
      [] domain = "tasks" -> "product.tasks_agent"
      [] domain = "orchestration" -> "product.task_orchestrator"
      [] OTHER -> ""

\* RouterAgent._analyze_complexity
_analyze_complexity(desc, domains) ==
    Min(1000, Min(400, Len(domains) * 100) + Min(300, desc.word_count * 3)
                + 50 * desc.complex_keywords)

\* Remove duplicates while preserving order.
RECURSIVE Unique(_)
Unique(seq) ==
    IF seq = <<>> THEN <<>>
    ELSE LET front == Unique(SubSeq(seq, 1, Len(seq) - 1))
             last == seq[Len(seq)]
         IN IF last \in Range(front) THEN front ELSE Append(front, last)

\* RouterAgent._select_agents
_select_agents(domains, current_state) ==
    LET mapped == [i \in 1..Len(domains) |-> domain_agent_map(domains[i])]
        selected == SelectSeq(mapped,
                              LAMBDA a : a # "" /\ a \notin current_state.completed_agents)
        withOrchestrator ==
            IF Len(domains) >= 3 /\ "product.task_orchestrator" \notin Range(selected)
            THEN <<"product.task_orchestrator">> \o selected
            ELSE selected
    IN Unique(withOrchestrator)

\* RouterAgent._has_dependencies
_has_dependencies(desc) == desc.dependency_keyword

\* _determine_execution_strategy without the single-agent case.
mut_determine_execution_strategy(selected_agents, desc, complexity_score) ==
    IF complexity_score > 600 \/ _has_dependencies(desc) THEN "dag"
    ELSE IF complexity_score < 400 THEN "parallel"
    ELSE "dag"

\* RouterAgent._determine_execution_strategy
_determine_execution_strategy(selected_agents, desc, complexity_score) ==
    IF Len(selected_agents) <= 1 THEN "sequential"
    ELSE IF complexity_score > 600 \/ _has_dependencies(desc) THEN "dag"
    ELSE IF Len(selected_agents) >= 2 /\ complexity_score < 400 THEN "parallel"
    ELSE "dag"

\* dependency_rules of _build_dependency_graph, with a back edge.
mut_dependency_rules(agent) ==
    CASE agent = "engineering.frontend_specialist" ->
            <<"architecture.backend_architect", "data.database_specialist">>
      [] agent = "quality.testing_specialist" ->
            <<"engineering.frontend_specialist", "architecture.backend_architect">>
      [] agent = "quality.security_specialist" -> <<"architecture.backend_architect">>
      [] agent = "operations.devops_engineer" -> <<"quality.testing_specialist">>
      [] agent = "architecture.backend_architect" -> <<"quality.testing_specialist">>
      [] OTHER -> <<>>

\* dependency_rules of _build_dependency_graph
dependency_rules(agent) ==
    CASE agent = "engineering.frontend_specialist" ->
            <<"architecture.backend_architect", "data.database_specialist">>
      [] agent = "quality.testing_specialist" ->
            <<"engineering.frontend_specialist", "architecture.backend_architect">>
      [] agent = "quality.security_specialist" -> <<"architecture.backend_architect">>
      [] agent = "operations.devops_engineer" -> <<"quality.testing_specialist">>
      [] OTHER -> <<>>

\* RouterAgent._build_dependency_graph
_build_dependency_graph(selected_agents) ==
    [agent \in Range(selected_agents) |->
        SelectSeq(dependency_rules(agent), LAMBDA dep : dep \in Range(selected_agents))]

\* RouterAgent._determine_refinement_strategy
_determine_refinement_strategy(current_state, complexity_score) ==
    IF current_state.failed_agents = <<>> THEN "RETRY_WITH_FEEDBACK"
    ELSE IF Len(current_state.failed_agents) > 1 THEN "ROUTE_TO_DEBUG"
    ELSE IF complexity_score > 700 THEN "ADD_STEP"
    ELSE "RETRY_WITH_FEEDBACK"

validate_dag_requires_dependency_graph(R) ==
    R.execution_strategy = "dag" =>
        (R.dependency_graph # None /\ DOMAIN R.dependency_graph[1] # {})

validate_dependency_graph_agents_exist(R) ==
    (R.dependency_graph # None) =>
        LET g == R.dependency_graph[1]
        IN \A agent \in DOMAIN g :
              /\ agent \in Range(R.selected_agents)
              /\ Range(g[agent]) \subseteq Range(R.selected_agents)

\* The validators of RoutingDecision without min_length=1 of selected_agents.
mut_RoutingDecisionValid(R) ==
    /\ validate_dag_requires_dependency_graph(R)
    /\ validate_dependency_graph_agents_exist(R)

\* RoutingDecision(...): field constraints and validators.
RoutingDecisionValid(R) ==
    /\ Len(R.selected_agents) >= 1
    /\ validate_dag_requires_dependency_graph(R)
    /\ validate_dependency_graph_agents_exist(R)

\* Iterating a Python set of agent ids: the elements in the order of the
\* interpreter's hash table, given here by a rank per agent id.
RECURSIVE IterationOrder(_, _)
IterationOrder(S, rank) ==
    IF S = {} THEN <<>>
    ELSE LET first == CHOOSE a \in S : \A b \in S : rank[a] <= rank[b]
         IN <<first>> \o IterationOrder(S \ {first}, rank)

\* The rank that lists the agents in the order of selected_agents.
InsertionRank(selected_agents) ==
    [a \in Range(selected_agents) |->
        CHOOSE i \in 1..Len(selected_agents) :
            /\ selected_agents[i] = a
            /\ \A j \in 1..(i - 1) : selected_agents[j] # a]

\* in_degree of get_execution_order before the loop: 0 for every selected
\* agent, then len(deps) for every entry of the graph.
InitialInDegree(R) ==
    LET g == R.dependency_graph[1]
    IN [a \in Range(R.selected_agents) \cup DOMAIN g |->
           IF a \in DOMAIN g THEN Len(g[a]) ELSE 0]

\* The while loop of RoutingDecision.get_execution_order: each batch lists
\* the remaining agents whose in_degree is 0, in the iteration order of the
\* set; every graph entry that names a batch agent loses one per such agent;
\* ok = FALSE is the circular-dependency ValueError of an empty batch.
RECURSIVE ExecutionBatches(_, _, _, _, _)
ExecutionBatches(g, in_degree, remaining, batches, rank) ==
    IF remaining = {} THEN [ok |-> TRUE, batches |-> batches]
    ELSE LET batch == SelectSeq(IterationOrder(remaining, rank),
                                LAMBDA a : in_degree[a] = 0)
             reduced == [a \in DOMAIN in_degree |->
                            IF a \in DOMAIN g
                            THEN in_degree[a]
                                 - Cardinality(Range(batch) \cap Range(g[a]))
                            ELSE in_degree[a]]
         IN IF batch = <<>> THEN [ok |-> FALSE, batches |-> batches]
            ELSE ExecutionBatches(g, reduced, remaining \ Range(batch),
                                  Append(batches, batch), rank)

\* RoutingDecision.get_execution_order
get_execution_order(R, rank) ==
    IF R.execution_strategy # "dag" \/ R.dependency_graph = None
          \/ DOMAIN R.dependency_graph[1] = {}
    THEN [ok |-> TRUE,
          batches |-> [i \in 1..Len(R.selected_agents) |-> <<R.selected_agents[i]>>]]
    ELSE ExecutionBatches(R.dependency_graph[1], InitialInDegree(R),
                          Range(R.selected_agents), <<>>, rank)

\* The RoutingDecision route() constructs.
BuildRoutingDecision(input) ==
    LET complexity_score == _analyze_complexity(input.description, input.domains)
        selected_agents == _select_agents(input.domains, input.current_state)
        execution_strategy ==
            _determine_execution_strategy(selected_agents, input.description,
                                          complexity_score)
    IN [selected_agents |-> selected_agents,
        execution_strategy |-> execution_strategy,
        dependency_graph |-> IF execution_strategy = "dag"
                             THEN Some(_build_dependency_graph(selected_agents))
                             ELSE None,
        refinement_strategy |->
            _determine_refinement_strategy(input.current_state, complexity_score)]

ModelDomains ==
    {"frontend", "backend", "database", "testing", "orchestration", "other"}

RECURSIVE SeqsUpTo(_, _)
SeqsUpTo(S, n) ==
    IF n = 0 THEN {<<>>}
    ELSE LET shorter == SeqsUpTo(S, n - 1)
         IN shorter \cup {Append(q, x) : q \in shorter, x \in S}

Descriptions ==
    {[empty |-> TRUE, word_count |-> 0, complex_keywords |-> 0,
      dependency_keyword |-> FALSE],
     [empty |-> FALSE, word_count |-> 5, complex_keywords |-> 0,
      dependency_keyword |-> FALSE],
     [empty |-> FALSE, word_count |-> 5, complex_keywords |-> 0,
      dependency_keyword |-> TRUE],
     [empty |-> FALSE, word_count |-> 100, complex_keywords |-> 6,
      dependency_keyword |-> FALSE]}

\* An entry of current_state["failed_agents"]: the agent id as a string, or
\* a dict with an "agent_id" key.
FailedString(agent_id) == [entry |-> "str", agent_id |-> agent_id]
FailedDict(agent_id) == [entry |-> "dict", agent_id |-> agent_id]

FailedLists ==
    {<<>>,
     <<FailedString("engineering.frontend_specialist")>>,
     <<FailedString("engineering.frontend_specialist"),
       FailedString("architecture.backend_architect")>>,
     <<FailedString("engineering.frontend_specialist"),
       FailedDict("engineering.frontend_specialist")>>}

CurrentStates ==
    [completed_agents : {{}, {"architecture.backend_architect"},
                         {"product.task_orchestrator",
                          "engineering.frontend_specialist"}},
     failed_agents : FailedLists]

RouterInputs ==
    [description : Descriptions, domains : SeqsUpTo(ModelDomains, MaxDomains),
     current_state : CurrentStates]

\* The AgentOutput of the except block of route(): success = False.
RouterErrorOutput ==
    [kind |-> "error", next_actions |-> <<"Fix error and retry routing">>]

TInit ==
    /\ tpc = "start"
    /\ tin \in RouterInputs
    /\ tout = NoOutput
    /\ routeDoc = None

TIdle ==
    /\ tpc = "idle"
    /\ tin = [description |-> [empty |-> TRUE, word_count |-> 0,
                               complex_keywords |-> 0, dependency_keyword |-> FALSE],
              domains |-> <<>>,
              current_state |-> [completed_agents |-> {}, failed_agents |-> <<>>]]
    /\ tout = NoOutput
    /\ routeDoc = None

\* RouterAgent.route: an empty description, a decision that fails validation
\* and an execution order that cannot be computed end in the error output;
\* the decision is persisted before the execution order is computed.  Whether
\* the order can be computed does not depend on the iteration order of the
\* set, so the order of selected_agents stands for it here.
route ==
    /\ tpc = "start"
    /\ IF tin.description.empty
       THEN /\ tout' = RouterErrorOutput
            /\ UNCHANGED routeDoc
       ELSE \E R \in {BuildRoutingDecision(tin)} :
               IF ~RoutingDecisionValid(R)
               THEN /\ tout' = RouterErrorOutput
                    /\ UNCHANGED routeDoc
               ELSE /\ routeDoc' = Some(R)
                    /\ tout' = IF get_execution_order(R, InsertionRank(R.selected_agents)).ok
                               THEN [kind |-> "decision", decision |-> R]
                               ELSE RouterErrorOutput
    /\ tpc' = "returned"
    /\ UNCHANGED tin

-----------------------------------------------------------------------------
(* RoutingDecision values built directly by a caller, and the execution    *)
(* orders computed from them  (src/sdd/agents/architecture/models.py).     *)

VARIABLES
    spc,            \* "construct", "rejected", "built", "evaluated",
                    \* "reevaluated", or "idle"
    candidate,      \* the arguments passed to RoutingDecision(...)
    decision,       \* Some(the RoutingDecision value) once constructed
    hashRank,       \* set iteration rank of the running interpreter process
    orders          \* the results of the get_execution_order calls so far

svars == <<spc, candidate, decision, hashRank, orders>>

MaxDeps == 2            \* longest dependency list of a candidate graph

SchedAgents == {"dept.a", "dept.b", "dept.c"}

SelectedLists ==
    {<<>>, <<"dept.a">>, <<"dept.a", "dept.b">>, <<"dept.b", "dept.a">>,
     <<"dept.a", "dept.b", "dept.c">>, <<"dept.c", "dept.a", "dept.b">>}

\* Dict[str, List[str]]: any keys, any dependency lists (repeated and
\* self-referring entries included).
Graphs(keys) ==
    UNION {[K -> SeqsUpTo(SchedAgents, MaxDeps)] : K \in SUBSET keys}

Candidate(selected_agents, execution_strategy, dependency_graph) ==
    [selected_agents |-> selected_agents,
     execution_strategy |-> execution_strategy,
     dependency_graph |-> dependency_graph,
     refinement_strategy |-> "RETRY_WITH_FEEDBACK"]

SchedCandidates(selected) ==
    {Candidate(sel, "dag", d) :
        sel \in selected,
        d \in {None} \cup {Some(g) : g \in Graphs(SchedAgents)}}
    \cup
    {Candidate(sel, strategy, d) :
        sel \in selected, strategy \in {"sequential", "parallel"},
        d \in {None, Some([a \in {"dept.b"} |-> <<"dept.a">>])}}

\* The iteration orders a set of agent ids can have: one per hash seed.
HashRanks ==
    {r \in [SchedAgents -> 1..Cardinality(SchedAgents)] :
        \A a, b \in SchedAgents : a # b => r[a] # r[b]}

SInit ==
    /\ spc = "construct"
    /\ candidate \in SchedCandidates(SelectedLists)
    /\ decision = None
    /\ hashRank \in HashRanks
    /\ orders = <<>>

SIdle ==
    /\ spc = "idle"
    /\ candidate = Candidate(<<>>, "sequential", None)
    /\ decision = None
    /\ hashRank = [a \in SchedAgents |-> 0]
    /\ orders = <<>>

\* RoutingDecision(...): the value exists when the field constraints and the
\* validators accept the arguments; a ValidationError otherwise.
Construct ==
    /\ spc = "construct"
    /\ IF RoutingDecisionValid(candidate)
       THEN /\ decision' = Some(candidate)
            /\ spc' = "built"
       ELSE /\ spc' = "rejected"
            /\ UNCHANGED decision
    /\ UNCHANGED <<candidate, hashRank, orders>>

\* One call of get_execution_order on the decision: a first one, then a
\* second one on the same value.
Evaluate ==
    /\ spc \in {"built", "evaluated"}
    /\ orders' = Append(orders, get_execution_order(decision[1], hashRank))
    /\ spc' = IF spc = "built" THEN "evaluated" ELSE "reevaluated"
    /\ UNCHANGED <<candidate, decision, hashRank>>

\* The decision (frozen, stored as a JSON document) is loaded by another
\* interpreter process, whose string hashes are seeded differently.
OtherProcess ==
    /\ spc = "evaluated"
    /\ hashRank' \in HashRanks \ {hashRank}
    /\ UNCHANGED <<spc, candidate, decision, orders>>

-----------------------------------------------------------------------------
(* AgentChannel  (src/sdd/agents/shared/communication.py).                 *)

VARIABLES
    message_queue,      \* AgentChannel.message_queue: the envelopes enqueued
    invocation_chain,   \* AgentChannel.invocation_chain
    messages_jsonl,     \* the records appended to messages.jsonl
    envelopes,          \* number of MessageEnvelope objects created so far
    sent,               \* the envelopes send() enqueued, in call order
    delivered,          \* what receive() returned: the agent_id asked for
                        \* and the envelope taken, in call order
    responded,          \* the outputs respond() accepted ("Response sent")
    handoff_history,    \* AgentChannel.handoff_history
    handoffs_jsonl,     \* the records appended to handoffs.jsonl
    exported            \* the audit trails written to {task_id}_audit.json

hvars == <<handoff_history, handoffs_jsonl, exported>>
cvars == <<message_queue, invocation_chain, messages_jsonl, envelopes, sent,
           delivered, responded, hvars>>

MaxMessages == 3        \* envelopes created on one channel

ChannelAgents == {"quality.verifier", "architecture.router"}
TaskIds == {"task-1", "task-2"}     \* two task UUIDs

\* AgentInput values: previous_outputs is the number of AgentOutput values in
\* context.previous_outputs.
AgentInputs ==
    [agent_id : ChannelAgents, task_id : TaskIds, previous_outputs : 0..1]

\* AgentOutput values (each carries a datetime timestamp).
AgentOutputs == [agent_id : ChannelAgents, task_id : TaskIds]

\* MessageEnvelope(receiver, payload): message_id is a fresh uuid4.
MessageEnvelope(receiver, payload) ==
    [message_id |-> envelopes + 1, receiver |-> receiver, payload |-> payload]

\* Whether json.dumps(envelope.to_dict()) succeeds: payload.model_dump()
\* keeps the datetime timestamp of every AgentOutput it holds, which
\* json.dumps cannot encode (TypeError).
JsonSerializable(payload_type, payload) ==
    /\ payload_type = "AgentInput"
    /\ payload.previous_outputs = 0

\* AgentChannel._audit_message: one more line in messages.jsonl, unless
\* json.dumps raises.
_audit_message(payload_type, envelope) ==
    IF JsonSerializable(payload_type, envelope.payload)
    THEN Append(messages_jsonl,
                [message_id |-> envelope.message_id, payload_type |-> payload_type,
                 receiver |-> envelope.receiver])
    ELSE messages_jsonl

\* list.pop(0) whatever the index.
mut_Pop(seq, i) == SubSeq(seq, 2, Len(seq))

\* The sequence without its i-th element (list.pop(i)).
Pop(seq, i) == SubSeq(seq, 1, i - 1) \o SubSeq(seq, i + 1, Len(seq))

CInit ==
    /\ message_queue = <<>>
    /\ invocation_chain = <<>>
    /\ messages_jsonl = <<>>
    /\ envelopes = 0
    /\ sent = <<>>
    /\ delivered = <<>>
    /\ responded = <<>>
    /\ handoff_history = <<>>
    /\ handoffs_jsonl = <<>>
    /\ exported = <<>>

\* No channel is in use.
CIdle == CInit

\* AgentChannel.send: the envelope is enqueued and the invocation tracked
\* before the audit line is written; when the audit raises, both stay.
send(agent_input) ==
    /\ envelopes < MaxMessages
    /\ LET envelope == MessageEnvelope(agent_input.agent_id, agent_input)
       IN /\ message_queue' = Append(message_queue, envelope)
          /\ invocation_chain' = Append(invocation_chain, agent_input.agent_id)
          /\ messages_jsonl' = _audit_message("AgentInput", envelope)
          /\ sent' = Append(sent, envelope)
    /\ envelopes' = envelopes + 1
    /\ UNCHANGED <<delivered, responded, hvars>>

\* AgentChannel.receive: the first envelope of the queue whose receiver is
\* agent_id (any envelope for agent_id = None) is removed and its payload
\* returned; None, and no change, when there is none.
receive(agent_id) ==
    LET matching == {i \in 1..Len(message_queue) :
                        agent_id = "None" \/ message_queue[i].receiver = agent_id}
    IN IF matching = {}
       THEN UNCHANGED cvars
       ELSE LET i == CHOOSE k \in matching : \A m \in matching : k <= m
            IN /\ message_queue' = Pop(message_queue, i)
               /\ delivered' = Append(delivered,
                                      [agent_id |-> agent_id,
                                       envelope |-> message_queue[i]])
               /\ UNCHANGED <<invocation_chain, messages_jsonl, envelopes, sent,
                              responded, hvars>>

\* AgentChannel.respond: the output is validated as an AgentOutput, wrapped
\* in an envelope and logged as sent; nothing relates it to an input.  The
\* audit line is then written by _audit_message.
respond(agent_output, receiver) ==
    /\ envelopes < MaxMessages
    /\ messages_jsonl' = _audit_message("AgentOutput",
                                        MessageEnvelope(receiver, agent_output))
    /\ responded' = Append(responded, agent_output)
    /\ envelopes' = envelopes + 1
    /\ UNCHANGED <<message_queue, invocation_chain, sent, delivered, hvars>>

MaxHandoffs == 1        \* handoff calls on one channel
MaxExports == 1         \* export_audit_trail calls on one channel

\* AgentContext values handed off: previous_outputs is the number of
\* AgentOutput values the context holds.
HandoffContexts == [previous_outputs : 0..1]

\* AgentChannel.handoff: the record joins handoff_history before the audit
\* line is written; json.dumps of a context that holds outputs raises.
handoff(from_agent, to_agent, context) ==
    /\ Len(handoff_history) < MaxHandoffs
    /\ Len(handoffs_jsonl) < MaxHandoffs
    /\ LET record == [from_agent |-> from_agent, to_agent |-> to_agent,
                      context |-> context]
       IN /\ handoff_history' = Append(handoff_history, record)
          /\ handoffs_jsonl' = IF context.previous_outputs = 0
                               THEN Append(handoffs_jsonl, record)
                               ELSE handoffs_jsonl
    /\ UNCHANGED <<message_queue, invocation_chain, messages_jsonl, envelopes,
                   sent, delivered, responded, exported>>

\* AgentChannel.clear
clear ==
    /\ message_queue' = <<>>
    /\ invocation_chain' = <<>>
    /\ handoff_history' = <<>>
    /\ UNCHANGED <<messages_jsonl, envelopes, sent, delivered, responded,
                   handoffs_jsonl, exported>>

\* The paths a caller gives export_audit_trail: none (the default
\* {task_id}_audit.json in audit_dir), or the path of messages.jsonl.
OutputPaths == {"None", "messages.jsonl"}

\* AgentChannel.export_audit_trail: audit_data is built and dumped, then
\* written over the file at output_path (Path.write_text); json.dumps raises
\* when a handoff context holds outputs.
export_audit_trail(task_id, output_path) ==
    /\ Len(exported) < MaxExports
    /\ LET audit_data == [task_id |-> task_id,
                          invocation_chain |-> invocation_chain,
                          handoff_history |-> handoff_history,
                          message_count |-> Len(message_queue)]
           dumped == \A k \in 1..Len(handoff_history) :
                        handoff_history[k].context.previous_outputs = 0
       IN /\ exported' = IF dumped THEN Append(exported, output_path)
                         ELSE exported
          /\ messages_jsonl' = IF dumped /\ output_path = "messages.jsonl"
                               THEN <<audit_data>>
                               ELSE messages_jsonl
    /\ UNCHANGED <<message_queue, invocation_chain, envelopes, sent, delivered,
                   responded, handoff_history, handoffs_jsonl>>

-----------------------------------------------------------------------------
(* AgentContext  (src/sdd/agents/shared/models.py).                        *)

VARIABLES
    previous_outputs,   \* AgentContext.previous_outputs of the latest context
    add_raised          \* whether the last add_output call raised

xvars == <<previous_outputs, add_raised>>

MaxOutputs == 4         \* outputs added to one context
MaxStamp == 2           \* latest timestamp of an output

\* AgentOutput values, told apart by their timestamp.
StampedOutputs == [timestamp : 0..MaxStamp]

\* AgentContext.validate_outputs_chronological
validate_outputs_chronological(outputs) ==
    \A i \in 1..(Len(outputs) - 1) :
        ~(outputs[i].timestamp > outputs[i + 1].timestamp)

\* AgentContext(): no outputs yet.
XInit ==
    /\ previous_outputs = <<>>
    /\ add_raised = FALSE

XIdle == XInit

\* AgentContext.add_output: model_copy(update=...) builds the new context
\* from the old fields and the update without running any validator.
add_output(output) ==
    /\ Len(previous_outputs) < MaxOutputs
    /\ previous_outputs' = previous_outputs \o <<output>>
    /\ add_raised' = FALSE

-----------------------------------------------------------------------------
(* FeedbackAccumulator  (src/sdd/feedback/accumulator.py).                 *)

VARIABLES
    feedback_dir,       \* feedback_dir/{task_id}.json: document or NoDoc
    archive_dir,        \* archive_dir/{task_id}.json: document or NoDoc
    clock,              \* datetime.now(), counted in calls of add
    written,            \* per task, the records add has written (history)
    cumulative          \* the last get_cumulative call and what it returned

fvars == <<feedback_dir, archive_dir, clock, written, cumulative>>

MaxRecords == 3         \* records added by one accumulator
MaxRecent == 2          \* largest max_records passed to get_cumulative

\* Task identifiers handed to the accumulator; UUID(task_id) accepts two.
FeedbackTaskIds == {"uuid-1", "uuid-2", "not-a-uuid"}
IsUUID(task_id) == task_id \in {"uuid-1", "uuid-2"}

\* Feedback texts; FeedbackRecord.feedback has min_length = 1.
FeedbackTexts == {"", "add tests", "fix lint"}

\* FeedbackRecord, reduced to the fields the history is read by.
FeedbackRecord(timestamp, feedback) ==
    [timestamp |-> timestamp, feedback |-> feedback]

\* FeedbackHistory; created_at and updated_at are carried, never read.
FeedbackHistory(task_id, records, archived) ==
    [task_id |-> task_id, records |-> records, archived |-> archived]

\* records[start:] of a Python list: a negative start counts from the end.
SliceFrom(records, start) ==
    LET n == Len(records)
        from == IF start < 0
                THEN (IF n + start < 0 THEN 0 ELSE n + start)
                ELSE Min(start, n)
    IN SubSeq(records, from + 1, n)

\* FeedbackAccumulator._load_or_create_history
_load_or_create_history(task_id) ==
    IF feedback_dir[task_id] # NoDoc
    THEN feedback_dir[task_id]
    ELSE FeedbackHistory(task_id, <<>>, FALSE)

\* FeedbackAccumulator(): both directories exist and hold no document.
FInit ==
    /\ feedback_dir = [t \in FeedbackTaskIds |-> NoDoc]
    /\ archive_dir = [t \in FeedbackTaskIds |-> NoDoc]
    /\ clock = 0
    /\ written = [t \in FeedbackTaskIds |-> <<>>]
    /\ cumulative = [called |-> FALSE]

FIdle == FInit

\* FeedbackAccumulator.add: ValueError for a task_id that is no UUID,
\* ValidationError for an empty feedback text; otherwise the loaded (or
\* new) history plus the record is written over the active document.
add(task_id, feedback) ==
    /\ clock < MaxRecords
    /\ IF ~IsUUID(task_id) \/ feedback = ""
       THEN UNCHANGED <<feedback_dir, written>>
       ELSE LET history == _load_or_create_history(task_id)
                record == FeedbackRecord(clock, feedback)
                updated_history ==
                    FeedbackHistory(history.task_id,
                                    history.records \o <<record>>,
                                    history.archived)
            IN /\ feedback_dir' =
                      [feedback_dir EXCEPT ![task_id] = updated_history]
               /\ written' =
                      [written EXCEPT ![task_id] = Append(@, record)]
    /\ clock' = clock + 1
    /\ UNCHANGED <<archive_dir, cumulative>>

\* FeedbackAccumulator.get_cumulative: [] when the active document is
\* missing, else the feedback of records[-max_records:] (all records when
\* max_records is None).
get_cumulative(task_id, max_records) ==
    /\ LET records ==
               IF feedback_dir[task_id] = NoDoc THEN <<>>
               ELSE IF max_records # None
                    THEN SliceFrom(feedback_dir[task_id].records,
                                   0 - max_records[1])
                    ELSE feedback_dir[task_id].records
       IN cumulative' =
              [called |-> TRUE, task_id |-> task_id,
               max_records |-> max_records,
               result |-> [i \in 1..Len(records) |-> records[i].feedback]]
    /\ UNCHANGED <<feedback_dir, archive_dir, clock, written>>

\* FeedbackAccumulator.archive: False when the active document is missing;
\* else the history, marked archived, is written over the archive document
\* and the active document is unlinked.
archive(task_id) ==
    /\ feedback_dir[task_id] # NoDoc
    /\ LET history == feedback_dir[task_id]
           archived_history ==
               FeedbackHistory(history.task_id, history.records, TRUE)
       IN archive_dir' = [archive_dir EXCEPT ![task_id] = archived_history]
    /\ feedback_dir' = [feedback_dir EXCEPT ![task_id] = NoDoc]
    /\ UNCHANGED <<clock, written, cumulative>>

-----------------------------------------------------------------------------
(* Two refine_until_sufficient calls on different tasks that share one     *)
(* state directory (src/sdd/refinement/engine.py, models.py).  The clock   *)
(* is held at 0: the documents are compared up to their timestamps.        *)

VARIABLES
    state_dir,          \* the files of the shared directory (NoDoc: absent)
    shared_engine,      \* the configuration both calls run with
    runs,               \* per task: position, in-memory state, decision
    recorded            \* per task: the decisions its iterations recorded

pvars == <<state_dir, shared_engine, runs, recorded>>

MaxSharedRounds == 2    \* max_rounds of the engine the two calls share

\* Two task identifiers, UUIDs in canonical form.
SharedTasks == {"uuid-1", "uuid-2"}

\* One file for every task in place of its state file.
mut_StateFile(task_id) == <<"state", ".json">>

\* state_dir / f"{task_id}.json"
StateFile(task_id) == <<task_id, ".json">>

\* state_dir / f"{task_id}_escalation.txt"
EscalationFile(task_id) == <<task_id, "_escalation.txt">>

SharedFiles ==
    {StateFile(t) : t \in SharedTasks} \cup {EscalationFile(t) : t \in SharedTasks}

SharedConfigs ==
    [max_rounds : 1..MaxSharedRounds,
     quality_threshold : {_get_quality_threshold("planning")},
     early_stop_threshold : {EarlyStopDefault}]

\* The fresh state of a task: RefinementState(task_id = task_id, ...).
TaskState(task_id, e) == [task_id |-> task_id] @@ FreshState(e, 0)

PInit ==
    /\ state_dir = [f \in SharedFiles |-> NoDoc]
    /\ shared_engine \in SharedConfigs
    /\ runs \in [SharedTasks -> [pc : {"start"}, hook : BOOLEAN,
                                 state : {NoDoc}, pending : {NoDoc}]]
    /\ recorded = [t \in SharedTasks |-> <<>>]

PIdle ==
    /\ state_dir = [f \in SharedFiles |-> NoDoc]
    /\ shared_engine = [max_rounds |-> 1, quality_threshold |-> 85,
                        early_stop_threshold |-> EarlyStopDefault]
    /\ runs = [t \in SharedTasks |->
                  [pc |-> "idle", hook |-> FALSE, state |-> NoDoc,
                   pending |-> NoDoc]]
    /\ recorded = [t \in SharedTasks |-> <<>>]

\* _load_or_create_state(task_id, ...): the file named after the call's
\* task_id is loaded if it exists.
TaskLoadOrCreate(t) ==
    /\ runs[t].pc = "start"
    /\ LET doc == state_dir[StateFile(t)]
       IN runs' = [runs EXCEPT
              ![t].state = IF doc = NoDoc THEN TaskState(t, shared_engine)
                           ELSE IF RefinementStateValid(doc) THEN doc
                           ELSE NoDoc,
              ![t].pc = IF doc = NoDoc \/ RefinementStateValid(doc)
                        THEN "guard" ELSE "raised"]
    /\ UNCHANGED <<state_dir, shared_engine, recorded>>

\* while state.can_continue()
TaskGuard(t) ==
    /\ runs[t].pc = "guard"
    /\ runs' = [runs EXCEPT ![t].pc = IF can_continue(runs[t].state)
                                      THEN "verify" ELSE "returned"]
    /\ UNCHANGED <<state_dir, shared_engine, recorded>>

\* _verify_artifact
TaskVerify(t) ==
    /\ runs[t].pc = "verify"
    /\ \E d \in VerifierOutputs \cup {VerifierErrorOutput} :
          runs' = IF model_validate(d)
                  THEN [runs EXCEPT ![t].pending = d, ![t].pc = "record"]
                  ELSE [runs EXCEPT ![t].pc = "raised"]
    /\ UNCHANGED <<state_dir, shared_engine, recorded>>

\* state = state.add_iteration(iteration); state.save_to_file(state_dir):
\* the file written is named after the task_id of the state.
TaskRecord(t) ==
    /\ runs[t].pc = "record"
    /\ LET S == runs[t].state
           new == add_iteration(
                      S, IterationRecord(S.current_round + 1, 0,
                                         runs[t].pending), 0)
       IN /\ runs' = [runs EXCEPT ![t].state = new, ![t].pc = "check"]
          /\ state_dir' = [state_dir EXCEPT ![StateFile(new.task_id)] = new]
    /\ recorded' = [recorded EXCEPT ![t] = Append(@, runs[t].pending)]
    /\ UNCHANGED shared_engine

\* The three stop checks; _escalate_to_human writes
\* state_dir / f"{state.task_id}_escalation.txt".
TaskStopChecks(t) ==
    /\ runs[t].pc = "check"
    /\ LET S == runs[t].state
       IN IF should_early_stop(S)
             \/ (should_stop(S) /\ S.ema_quality >=
                                       FromScore(shared_engine.quality_threshold))
          THEN /\ runs' = [runs EXCEPT ![t].pc = "returned"]
               /\ state_dir' = state_dir
          ELSE IF S.current_round >= shared_engine.max_rounds
          THEN /\ runs' = [runs EXCEPT ![t].pc = "returned"]
               /\ state_dir' =
                      [state_dir EXCEPT ![EscalationFile(S.task_id)] = S]
          ELSE /\ runs' = [runs EXCEPT
                      ![t].pc = IF runs[t].hook THEN "hook" ELSE "guard"]
               /\ state_dir' = state_dir
    /\ UNCHANGED <<shared_engine, recorded>>

\* refinement_fn(state)
TaskHook(t) ==
    /\ runs[t].pc = "hook"
    /\ runs' = [runs EXCEPT ![t].pc = "guard"]
    /\ UNCHANGED <<state_dir, shared_engine, recorded>>

\* One step of the call on task t.
TaskStep(t) ==
    \/ TaskLoadOrCreate(t)
    \/ TaskGuard(t)
    \/ TaskVerify(t)
    \/ TaskRecord(t)
    \/ TaskStopChecks(t)
    \/ TaskHook(t)

-----------------------------------------------------------------------------
(* Two workers that call FeedbackAccumulator.add on one accumulator       *)
(* directory (src/sdd/feedback/accumulator.py).  add reads the active      *)
(* document, builds the longer history in memory and writes it back; it    *)
(* takes no lock, so the steps of two calls interleave.                    *)

VARIABLES
    workers             \* per worker, where its add call stands

wvars == <<workers>>

Workers == {1, 2}

WInit == workers = [w \in Workers |-> [pc |-> "idle"]]
WIdle == WInit

\* add up to the new record: UUID(task_id), _load_or_create_history, then
\* FeedbackRecord(...), which raises for an empty feedback text.
add_load(w, task_id, feedback) ==
    /\ workers[w].pc # "loaded"
    /\ clock < MaxRecords
    /\ IF ~IsUUID(task_id) \/ feedback = ""
       THEN workers' = [workers EXCEPT ![w] = [pc |-> "raised"]]
       ELSE workers' = [workers EXCEPT ![w] =
                [pc |-> "loaded",
                 history |-> _load_or_create_history(task_id),
                 record |-> FeedbackRecord(clock, feedback)]]
    /\ clock' = clock + 1
    /\ UNCHANGED <<feedback_dir, archive_dir, written, cumulative>>

\* The rest of add: _save_history(updated_history); return.
add_save(w) ==
    /\ workers[w].pc = "loaded"
    /\ LET history == workers[w].history
           updated_history ==
               FeedbackHistory(history.task_id,
                               history.records \o <<workers[w].record>>,
                               history.archived)
       IN /\ feedback_dir' =
                 [feedback_dir EXCEPT ![history.task_id] = updated_history]
          /\ written' =
                 [written EXCEPT ![history.task_id] = Append(@, workers[w].record)]
    /\ workers' = [workers EXCEPT ![w].pc = "returned"]
    /\ UNCHANGED <<archive_dir, clock, cumulative>>

-----------------------------------------------------------------------------
(* A caller's request to cancel a running refine_until_sufficient call.    *)
(* The call takes no cancellation token and reads no flag or event         *)
(* (src/sdd/refinement/engine.py, refine_until_sufficient): the request is *)
(* state of the caller that no statement of the loop looks at.             *)

VARIABLES
    cancel_requested    \* whether the caller has asked the run to stop

nvars == <<cancel_requested>>

NIdle == cancel_requested = FALSE

\* The request arrives while a round of the run is in progress.
RequestCancel ==
    /\ rpc \in {"verify", "record", "check", "hook"}
    /\ ~cancel_requested
    /\ cancel_requested' = TRUE

\* The variables of the subsystems specified after the channel.
evars == <<xvars, fvars, nvars, pvars, wvars>>
EIdle == XIdle /\ FIdle /\ NIdle /\ PIdle /\ WIdle

-----------------------------------------------------------------------------
vars == <<rvars, dvars, vvars, tvars, svars, cvars, evars>>

\* No refine_until_sufficient call is in progress.
RIdle ==
    /\ rpc = "idle"
    /\ engine = [max_rounds |-> 1, quality_threshold |-> 85,
                 early_stop_threshold |-> EarlyStopDefault]
    /\ hasHook = FALSE
    /\ state = NoDoc
    /\ disk = NoDoc
    /\ escDoc = NoDoc
    /\ escWrites = 0
    /\ pending = NoDoc
    /\ now = 0
    /\ verifyCalls = 0
    /\ hookCalls = 0
    /\ startRound = 0
    /\ loaded = FALSE
    /\ exitVia = "none"

\* No debug() call is in progress.
DIdle ==
    /\ dpc = "idle"
    /\ din = [failed_code |-> <<>>, stack_trace |-> <<>>, max_iterations |-> 0]
    /\ attempts = <<>>
    /\ current_code = <<>>
    /\ resolved = FALSE
    /\ iteration = 1
    /\ dout = NoOutput
    /\ sessionDoc = None

\* One run of refine_until_sufficient.
Init == RInit /\ DIdle /\ VIdle /\ TIdle /\ SIdle /\ CIdle /\ EIdle
Next ==
    \/ _load_or_create_state /\ UNCHANGED <<dvars, vvars, tvars, svars, cvars, evars>>
    \/ LoopGuard /\ UNCHANGED <<dvars, vvars, tvars, svars, cvars, evars>>
    \/ _verify_artifact /\ UNCHANGED <<dvars, vvars, tvars, svars, cvars, evars>>
    \/ RecordIteration /\ UNCHANGED <<dvars, vvars, tvars, svars, cvars, evars>>
    \/ StopChecks /\ UNCHANGED <<dvars, vvars, tvars, svars, cvars, evars>>
    \/ RefinementHook /\ UNCHANGED <<dvars, vvars, tvars, svars, cvars, evars>>
Spec == Init /\ [][Next]_vars

\* MAX_REFINEMENT_ROUNDS default.
MaxRoundsDefault == 20

\* Engines of the runs against a verifier of steady, high scores.
SteadyConfigs ==
    [max_rounds : {7, MaxRoundsDefault},
     quality_threshold : {_get_quality_threshold(p) :
                              p \in {"planning", "implementation"}},
     early_stop_threshold : {EarlyStopDefault}]

\* A verifier that finds the artifact sufficient and gives it the same
\* score in every round.
SteadyOutputs ==
    [decision : {"sufficient"}, quality_score : 95..100, feedback : {<<>>}]

\* _verify_artifact against such a verifier.
SteadyVerify ==
    /\ rpc = "verify"
    /\ verifyCalls' = verifyCalls + 1
    /\ \E d \in SteadyOutputs :
          /\ pending = NoDoc \/ d = pending
          /\ IF VerificationDecisionValid(d)
             THEN pending' = d /\ rpc' = "record"
             ELSE pending' = pending /\ rpc' = "raised"
    /\ UNCHANGED <<engine, hasHook, state, disk, escDoc, escWrites, now,
                   hookCalls, startRound, loaded, exitVia>>

\* One run of refine_until_sufficient from a fresh state against a verifier
\* of steady, high scores.
SteadyInit ==
    /\ rpc = "start"
    /\ engine \in SteadyConfigs
    /\ hasHook \in BOOLEAN
    /\ disk = NoDoc
    /\ escDoc = NoDoc
    /\ state = NoDoc
    /\ escWrites = 0
    /\ pending = NoDoc
    /\ now = 0
    /\ verifyCalls = 0
    /\ hookCalls = 0
    /\ startRound = 0
    /\ loaded = FALSE
    /\ exitVia = "none"
    /\ DIdle /\ VIdle /\ TIdle /\ SIdle /\ CIdle /\ EIdle
SteadyNext ==
    \/ _load_or_create_state /\ UNCHANGED <<dvars, vvars, tvars, svars, cvars, evars>>
    \/ LoopGuard /\ UNCHANGED <<dvars, vvars, tvars, svars, cvars, evars>>
    \/ SteadyVerify /\ UNCHANGED <<dvars, vvars, tvars, svars, cvars, evars>>
    \/ RecordIteration /\ UNCHANGED <<dvars, vvars, tvars, svars, cvars, evars>>
    \/ StopChecks /\ UNCHANGED <<dvars, vvars, tvars, svars, cvars, evars>>
    \/ RefinementHook /\ UNCHANGED <<dvars, vvars, tvars, svars, cvars, evars>>
SteadySpec == SteadyInit /\ [][SteadyNext]_vars

\* Engines with the default thresholds of the phases and of early stopping,
\* and rounds enough for ema_quality to reach each of them.
DefaultConfigs ==
    [max_rounds : {7},
     quality_threshold : {_get_quality_threshold(p) : p \in Phases},
     early_stop_threshold : {EarlyStopDefault}]

\* One run of refine_until_sufficient from a fresh state under the default
\* thresholds, against any verifier.
FreshInit ==
    /\ rpc = "start"
    /\ engine \in DefaultConfigs
    /\ hasHook \in BOOLEAN
    /\ disk = NoDoc
    /\ escDoc = NoDoc
    /\ state = NoDoc
    /\ escWrites = 0
    /\ pending = NoDoc
    /\ now = 0
    /\ verifyCalls = 0
    /\ hookCalls = 0
    /\ startRound = 0
    /\ loaded = FALSE
    /\ exitVia = "none"
    /\ DIdle /\ VIdle /\ TIdle /\ SIdle /\ CIdle /\ EIdle
\* One valid output of the verifier for each score: the stop checks read the
\* scores only.
FreshOutputs ==
    {d \in VerifierOutputs :
        model_validate(d) /\ (d.decision = "sufficient" => d.feedback = <<>>)}
FreshVerify == \E d \in FreshOutputs : VerifyWith(d)
FreshNext ==
    \/ _load_or_create_state /\ UNCHANGED <<dvars, vvars, tvars, svars, cvars, evars>>
    \/ LoopGuard /\ UNCHANGED <<dvars, vvars, tvars, svars, cvars, evars>>
    \/ FreshVerify /\ UNCHANGED <<dvars, vvars, tvars, svars, cvars, evars>>
    \/ RecordIteration /\ UNCHANGED <<dvars, vvars, tvars, svars, cvars, evars>>
    \/ StopChecks /\ UNCHANGED <<dvars, vvars, tvars, svars, cvars, evars>>
    \/ RefinementHook /\ UNCHANGED <<dvars, vvars, tvars, svars, cvars, evars>>
FreshSpec == FreshInit /\ [][FreshNext]_vars

\* One run of refine_until_sufficient whose caller may ask it to stop.
CancelInit == Init
CancelNext ==
    \/ _load_or_create_state /\ UNCHANGED <<dvars, vvars, tvars, svars, cvars, evars>>
    \/ LoopGuard /\ UNCHANGED <<dvars, vvars, tvars, svars, cvars, evars>>
    \/ _verify_artifact /\ UNCHANGED <<dvars, vvars, tvars, svars, cvars, evars>>
    \/ RecordIteration /\ UNCHANGED <<dvars, vvars, tvars, svars, cvars, evars>>
    \/ StopChecks /\ UNCHANGED <<dvars, vvars, tvars, svars, cvars, evars>>
    \/ RefinementHook /\ UNCHANGED <<dvars, vvars, tvars, svars, cvars, evars>>
    \/ RequestCancel
       /\ UNCHANGED <<rvars, dvars, vvars, tvars, svars, cvars, xvars, fvars,
                    pvars, wvars>>
CancelSpec == CancelInit /\ [][CancelNext]_vars

\* Two calls on different tasks, their steps interleaved in any order.
SharedInit ==
    PInit /\ RIdle /\ DIdle /\ VIdle /\ TIdle /\ SIdle /\ CIdle /\ XIdle /\ FIdle
    /\ NIdle /\ WIdle
SharedNext ==
    \/ \E t \in SharedTasks :
          TaskLoadOrCreate(t)
          /\ UNCHANGED <<rvars, dvars, vvars, tvars, svars, cvars, xvars, fvars,
                         nvars, wvars>>
    \/ \E t \in SharedTasks :
          TaskGuard(t)
          /\ UNCHANGED <<rvars, dvars, vvars, tvars, svars, cvars, xvars, fvars,
                         nvars, wvars>>
    \/ \E t \in SharedTasks :
          TaskVerify(t)
          /\ UNCHANGED <<rvars, dvars, vvars, tvars, svars, cvars, xvars, fvars,
                         nvars, wvars>>
    \/ \E t \in SharedTasks :
          TaskRecord(t)
          /\ UNCHANGED <<rvars, dvars, vvars, tvars, svars, cvars, xvars, fvars,
                         nvars, wvars>>
    \/ \E t \in SharedTasks :
          TaskStopChecks(t)
          /\ UNCHANGED <<rvars, dvars, vvars, tvars, svars, cvars, xvars, fvars,
                         nvars, wvars>>
    \/ \E t \in SharedTasks :
          TaskHook(t)
          /\ UNCHANGED <<rvars, dvars, vvars, tvars, svars, cvars, xvars, fvars,
                         nvars, wvars>>
SharedSpec == SharedInit /\ [][SharedNext]_vars

\* One call of AutoDebugAgent.debug.
DebugInit == DInit /\ RIdle /\ VIdle /\ TIdle /\ SIdle /\ CIdle /\ EIdle
DebugNext ==
    \/ DebugStart /\ UNCHANGED <<rvars, vvars, tvars, svars, cvars, evars>>
    \/ DebugIteration /\ UNCHANGED <<rvars, vvars, tvars, svars, cvars, evars>>
    \/ DebugFinish /\ UNCHANGED <<rvars, vvars, tvars, svars, cvars, evars>>
DebugSpec == DebugInit /\ [][DebugNext]_vars

\* One call of VerificationAgent.verify.
VerifierInit == VInit /\ RIdle /\ DIdle /\ TIdle /\ SIdle /\ CIdle /\ EIdle
VerifierNext == verify /\ UNCHANGED <<rvars, dvars, tvars, svars, cvars, evars>>
VerifierSpec == VerifierInit /\ [][VerifierNext]_vars

\* One call of RouterAgent.route.
RouterInit == TInit /\ RIdle /\ DIdle /\ VIdle /\ SIdle /\ CIdle /\ EIdle
RouterNext == route /\ UNCHANGED <<rvars, dvars, vvars, svars, cvars, evars>>
RouterSpec == RouterInit /\ [][RouterNext]_vars

\* RoutingDecision values constructed by a caller and scheduled.
SchedInit == SInit /\ RIdle /\ DIdle /\ VIdle /\ TIdle /\ CIdle /\ EIdle
SchedNext ==
    \/ Construct /\ UNCHANGED <<rvars, dvars, vvars, tvars, cvars, evars>>
    \/ Evaluate /\ UNCHANGED <<rvars, dvars, vvars, tvars, cvars, evars>>
    \/ OtherProcess /\ UNCHANGED <<rvars, dvars, vvars, tvars, cvars, evars>>
SchedSpec == SchedInit /\ [][SchedNext]_vars

\* Calls of send, receive and respond on one AgentChannel, in any order.
ChannelInit == CInit /\ RIdle /\ DIdle /\ VIdle /\ TIdle /\ SIdle /\ EIdle
ChannelNext ==
    \/ \E agent_input \in AgentInputs :
          send(agent_input) /\ UNCHANGED <<rvars, dvars, vvars, tvars, svars, evars>>
    \/ \E agent_id \in ChannelAgents \cup {"None"} :
          receive(agent_id) /\ UNCHANGED <<rvars, dvars, vvars, tvars, svars, evars>>
    \/ \E agent_output \in AgentOutputs, receiver \in {"orchestrator"} :
          respond(agent_output, receiver)
          /\ UNCHANGED <<rvars, dvars, vvars, tvars, svars, evars>>
ChannelSpec == ChannelInit /\ [][ChannelNext]_vars

\* Calls of every operation of one AgentChannel, in any order, for the
\* messages of one task.
ChannelOpsNext ==
    \/ \E agent_input \in {i \in AgentInputs : i.task_id = "task-1"} :
          send(agent_input) /\ UNCHANGED <<rvars, dvars, vvars, tvars, svars, evars>>
    \/ \E agent_id \in {"quality.verifier", "None"} :
          receive(agent_id) /\ UNCHANGED <<rvars, dvars, vvars, tvars, svars, evars>>
    \/ \E agent_output \in {o \in AgentOutputs : o.task_id = "task-1"} :
          respond(agent_output, "orchestrator")
          /\ UNCHANGED <<rvars, dvars, vvars, tvars, svars, evars>>
    \/ \E context \in HandoffContexts :
          handoff("quality.verifier", "architecture.router", context)
          /\ UNCHANGED <<rvars, dvars, vvars, tvars, svars, evars>>
    \/ clear /\ UNCHANGED <<rvars, dvars, vvars, tvars, svars, evars>>
    \/ \E output_path \in OutputPaths :
          export_audit_trail("task-1", output_path)
          /\ UNCHANGED <<rvars, dvars, vvars, tvars, svars, evars>>
ChannelOpsSpec == ChannelInit /\ [][ChannelOpsNext]_vars

\* add_output calls on the contexts of one workflow.
ContextInit ==
    XInit /\ RIdle /\ DIdle /\ VIdle /\ TIdle /\ SIdle /\ CIdle /\ FIdle
    /\ NIdle /\ PIdle /\ WIdle
ContextNext ==
    \E output \in StampedOutputs :
        add_output(output)
        /\ UNCHANGED <<rvars, dvars, vvars, tvars, svars, cvars, fvars, nvars, pvars,
                       wvars>>
ContextSpec == ContextInit /\ [][ContextNext]_vars

FeedbackInit ==
    FInit /\ RIdle /\ DIdle /\ VIdle /\ TIdle /\ SIdle /\ CIdle /\ XIdle
    /\ NIdle /\ PIdle /\ WIdle
FeedbackNext ==
    \/ \E task_id \in FeedbackTaskIds, feedback \in FeedbackTexts :
          add(task_id, feedback)
          /\ UNCHANGED <<rvars, dvars, vvars, tvars, svars, cvars, xvars, nvars, pvars,
                         wvars>>
    \/ \E task_id \in FeedbackTaskIds,
          max_records \in {None} \cup {Some(n) : n \in 0..MaxRecent} :
          get_cumulative(task_id, max_records)
          /\ UNCHANGED <<rvars, dvars, vvars, tvars, svars, cvars, xvars, nvars, pvars,
                         wvars>>
    \/ \E task_id \in FeedbackTaskIds :
          archive(task_id)
          /\ UNCHANGED <<rvars, dvars, vvars, tvars, svars, cvars, xvars, nvars, pvars,
                         wvars>>
FeedbackSpec == FeedbackInit /\ [][FeedbackNext]_vars

\* add calls of two workers on one accumulator, their steps interleaved in
\* any order.
WorkersInit ==
    FInit /\ WInit /\ RIdle /\ DIdle /\ VIdle /\ TIdle /\ SIdle /\ CIdle
    /\ XIdle /\ NIdle /\ PIdle
WorkersNext ==
    \/ \E w \in Workers, task_id \in FeedbackTaskIds, feedback \in FeedbackTexts :
          add_load(w, task_id, feedback)
          /\ UNCHANGED <<rvars, dvars, vvars, tvars, svars, cvars, xvars, nvars, pvars>>
    \/ \E w \in Workers :
          add_save(w)
          /\ UNCHANGED <<rvars, dvars, vvars, tvars, svars, cvars, xvars, nvars, pvars>>
WorkersSpec == WorkersInit /\ [][WorkersNext]_vars

\* debug() is sequential code: a call that can take a step takes it.
DebugFairSpec == DebugSpec /\ WF_vars(DebugNext)

-----------------------------------------------------------------------------
(* Claims about the refinement loop, checked under Spec.                   *)

RDone == rpc \in {"returned", "raised"}

\* C1: a call invokes the verifier at most max_rounds times from a fresh
\* state, and at most max_rounds - r times when it resumes a persisted state
\* with current_round = r; it records no more iterations than that, and it is
\* never stuck before it has returned or raised.
C1_BoundedRounds ==
    /\ state # NoDoc =>
          /\ verifyCalls <= state.max_rounds - startRound
          /\ state.current_round - startRound <= verifyCalls
          /\ ~loaded => verifyCalls <= engine.max_rounds
    /\ state = NoDoc => verifyCalls = 0
    /\ ~RDone => ENABLED Next

\* C1 witness: a resumed call that used up every remaining round and returned.
C1_Witness ==
    /\ rpc = "returned"
    /\ loaded
    /\ startRound >= 1
    /\ verifyCalls >= 2
    /\ verifyCalls = state.max_rounds - startRound

\* The shape the spec requires of every persisted Refinement State.
WellFormedState(S) ==
    /\ Len(S.iterations) = S.current_round
    /\ \A k \in 1..Len(S.iterations) : S.iterations[k].round = k
    /\ S.current_round <= S.max_rounds
    /\ \A k \in 1..(Len(S.iterations) - 1) :
          S.iterations[k].timestamp <= S.iterations[k + 1].timestamp

\* C2: after every iteration of a call (fresh or resumed from any document
\* that loads), the persisted state has len(iterations) = current_round,
\* iterations[k].round = k+1, current_round <= max_rounds and non-decreasing
\* timestamps.
C2_PersistedStateWellFormed ==
    (state # NoDoc /\ state.current_round > startRound) =>
        (disk # NoDoc /\ WellFormedState(disk))

\* C3: a call that returns a state with current_round = max_rounds and
\* ema_quality < quality_threshold has persisted that state with all its
\* max_rounds iterations and left an escalation document; a call that returns
\* with ema_quality >= quality_threshold wrote no escalation document.
C3_EscalationOnExhaustion ==
    rpc = "returned" =>
        /\ (state.current_round = state.max_rounds
             /\ state.ema_quality < FromScore(state.quality_threshold)) =>
               (disk = state /\ escDoc # NoDoc)
        /\ state.ema_quality >= FromScore(state.quality_threshold) =>
               escWrites = 0


-----------------------------------------------------------------------------
(* Claims about the auto-debug loop (checked under DebugSpec).             *)

DDone == dpc = "returned"
NonEmptyInput == din.failed_code # <<>> /\ din.stack_trace # <<>>
SomePassed == \E i \in 1..Len(attempts) : attempts[i].test_result = "passed"

\* C4: for every max_iterations the caller passes, debug() terminates and
\* has recorded at most 5 Debug Attempts: the attempts list never holds
\* more than 5 entries, and every call returns.
C4_AtMostFiveAttempts ==
    /\ [](Len(attempts) <= 5)
    /\ <>(dpc = "returned")

C4_Witness ==
    /\ DDone
    /\ din.max_iterations > 5
    /\ Len(attempts) = 5
    /\ ~SomePassed

SessionWellFormed(D) ==
    /\ D.total_iterations = Len(D.attempts)
    /\ Len(D.attempts) >= 1
    /\ Len(D.attempts) <= 5
    /\ \A i \in 1..Len(D.attempts) : D.attempts[i].iteration = i
    /\ ~(D.success /\ D.escalated)

\* C5: every Debug Session that debug() persists or returns has
\* total_iterations = len(attempts), between 1 and 5 attempts, attempts
\* numbered 1, 2, ... in order, and is not both successful and escalated.
C5_SessionWellFormed ==
    /\ sessionDoc # None => SessionWellFormed(sessionDoc[1])
    /\ dout.kind = "session" => SessionWellFormed(dout.session)

C5_Witness ==
    /\ dout.kind = "session"
    /\ sessionDoc = Some(dout.session)
    /\ Len(dout.session.attempts) = 5
    /\ dout.session.escalated

\* C6: for every input with non-empty failed_code and stack_trace and every
\* max_iterations (0 and values above 5 included), debug() ends with a
\* session that is successful, or escalated with an escalation_context;
\* it never ends with the error output.
C6_SessionOrEscalation ==
    (DDone /\ NonEmptyInput) =>
        /\ dout.kind = "session"
        /\ \/ dout.session.success
           \/ dout.session.escalated /\ dout.session.escalation_context # None

\* C7: once an attempt's validation result is passed it is the last attempt,
\* and the call returns a session with success, not escalated, final_code
\* equal to that attempt's repaired_code, resolution_time_seconds set, no
\* escalation_context, and a repair_summary naming the first attempt's
\* error pattern and the passing attempt's repair action.
C7_PassEndsSession ==
    \A i \in 1..Len(attempts) :
        attempts[i].test_result = "passed" =>
            /\ i = Len(attempts)
            /\ DDone =>
                /\ dout.kind = "session"
                /\ dout.session.attempts = attempts
                /\ dout.session.success
                /\ ~dout.session.escalated
                /\ dout.session.final_code = Some(attempts[i].repaired_code)
                /\ dout.session.resolution_time_seconds # None
                /\ dout.session.escalation_context = None
                /\ dout.session.repair_summary # None
                /\ dout.session.repair_summary[1].pattern = attempts[1].error_pattern
                /\ dout.session.repair_summary[1].action = attempts[i].repair_action

C7_Witness ==
    /\ DDone
    /\ din.max_iterations >= 2
    /\ SomePassed
    /\ attempts[Len(attempts)].repaired_code # din.failed_code
    /\ dout.kind = "session"

\* C8: when no attempt passes and 1 <= max_iterations <= 5 (failed_code and
\* stack_trace given), debug() makes exactly max_iterations attempts and
\* returns a session with success false, escalated true, no final_code,
\* and an escalation_context with total_iterations = max_iterations, one
\* {iteration, action, result} entry per attempt in iteration order, and
\* a reason.
C8_ExhaustionEscalates ==
    (/\ DDone
     /\ NonEmptyInput
     /\ ~SomePassed
     /\ din.max_iterations >= 1
     /\ din.max_iterations <= 5) =>
        /\ Len(attempts) = din.max_iterations
        /\ dout.kind = "session"
        /\ dout.session.attempts = attempts
        /\ ~dout.session.success
        /\ dout.session.escalated
        /\ dout.session.final_code = None
        /\ dout.session.escalation_context # None
        /\ LET ctx == dout.session.escalation_context[1]
           IN /\ ctx.total_iterations = din.max_iterations
              /\ Len(ctx.attempted_repairs) = Len(attempts)
              /\ \A i \in 1..Len(attempts) :
                    ctx.attempted_repairs[i] =
                        [iteration |-> i,
                         action |-> attempts[i].repair_action,
                         result |-> attempts[i].test_result]
              /\ ctx.reason = [pattern |-> attempts[1].error_pattern,
                               iterations |-> din.max_iterations]

-----------------------------------------------------------------------------
(* Claims about the verifier (checked under VerifierSpec).                 *)

\* C9: for each phase threshold the refinement loop passes (0.90, 0.85,
\* 0.80, 0.80) and every quality score, verify() yields a Verification
\* Decision, and its decision is sufficient exactly when quality_score is
\* at least that threshold.
C9_DecisionMatchesPhaseThreshold ==
    (vpc = "returned" /\ vin.artifact_exists /\ vin.threshold >= 0) =>
        /\ vout.kind = "decision"
        /\ (vout.decision.decision = "sufficient")
             <=> (vout.decision.quality_score >= ToQuality(vin.threshold))

-----------------------------------------------------------------------------
(* Claims about the router (checked under RouterSpec).                     *)

Deps(g, a) == IF a \in DOMAIN g THEN Range(g[a]) ELSE {}

\* The agents reachable from the agents of S along at least one and at most
\* n dependency edges.
RECURSIVE ReachableIn(_, _, _)
ReachableIn(g, S, n) ==
    IF n = 0 THEN {}
    ELSE LET next == UNION {Deps(g, a) : a \in S}
         IN next \cup ReachableIn(g, next, n - 1)

Acyclic(g) ==
    \A a \in DOMAIN g : a \notin ReachableIn(g, {a}, Cardinality(DOMAIN g))

DagWellFormed(R) ==
    R.execution_strategy = "dag" =>
        /\ R.dependency_graph # None
        /\ Acyclic(R.dependency_graph[1])
        /\ DOMAIN R.dependency_graph[1] \subseteq Range(R.selected_agents)
        /\ \A a \in DOMAIN R.dependency_graph[1] :
              Range(R.dependency_graph[1][a]) \subseteq Range(R.selected_agents)

\* C10: every Routing Decision route() produces (persists or returns) with
\* execution_strategy = dag has an acyclic dependency_graph whose keys and
\* listed dependencies are all selected agents.
C10_DagAcyclicOverSelected ==
    /\ routeDoc # None => DagWellFormed(routeDoc[1])
    /\ tout.kind = "decision" => DagWellFormed(tout.decision)

C10_Witness ==
    /\ tout.kind = "decision"
    /\ tout.decision.execution_strategy = "dag"
    /\ tin.current_state.completed_agents # {}
    /\ \E a \in DOMAIN tout.decision.dependency_graph[1] :
          \E b \in Range(tout.decision.dependency_graph[1][a]) :
             tout.decision.dependency_graph[1][b] # <<>>

-----------------------------------------------------------------------------
(* Claims about RoutingDecision values and their execution order           *)
(* (checked under SchedSpec).                                              *)

\* The decision is a dag decision whose execution order has been computed.
DagEvaluated ==
    /\ spc \in {"evaluated", "reevaluated"}
    /\ decision[1].execution_strategy = "dag"

Earlier(batches, k) == UNION {Range(batches[j]) : j \in 1..(k - 1)}

\* The batches partition the selected agents.
IsPartition(R, batches) ==
    /\ UNION {Range(batches[k]) : k \in 1..Len(batches)} = Range(R.selected_agents)
    /\ \A k \in 1..Len(batches) :
          /\ batches[k] # <<>>
          /\ Cardinality(Range(batches[k])) = Len(batches[k])
          /\ Range(batches[k]) \cap Earlier(batches, k) = {}

\* Every batch is the set of all agents not scheduled earlier whose
\* dependencies are all in earlier batches.
BatchesAreLevels(R, batches) ==
    LET g == R.dependency_graph[1]
    IN \A k \in 1..Len(batches) :
          Range(batches[k]) =
              {a \in Range(R.selected_agents) \ Earlier(batches, k) :
                  Deps(g, a) \subseteq Earlier(batches, k)}

\* C11: for every valid dag Routing Decision, get_execution_order raises the
\* cycle error exactly when the dependency graph contains a cycle, and
\* otherwise returns batches that partition selected_agents, with every
\* dependency of an agent in a strictly earlier batch and every batch
\* holding all remaining agents whose dependencies are in earlier batches.
C11_BatchesAreTopologicalLevels ==
    DagEvaluated =>
        \A i \in 1..Len(orders) :
            /\ orders[i].ok <=> Acyclic(decision[1].dependency_graph[1])
            /\ orders[i].ok =>
                  /\ IsPartition(decision[1], orders[i].batches)
                  /\ BatchesAreLevels(decision[1], orders[i].batches)

\* C12: two evaluations of get_execution_order on the same Routing Decision
\* return the same batch list, with the same agent order inside every batch
\* (the result depends on selected_agents and dependency_graph only).
C12_ScheduleDeterministic ==
    spc = "reevaluated" => orders[1] = orders[2]

-----------------------------------------------------------------------------
(* Claims about RouterAgent.route (checked under RouterSpec).              *)

\* "build a user list page": five words, no complexity keyword and no
\* dependency keyword.
UserListPage ==
    [empty |-> FALSE, word_count |-> 5, complex_keywords |-> 0,
     dependency_keyword |-> FALSE]

ThreeDomainScenario ==
    /\ tpc = "returned"
    /\ tin.domains = <<"frontend", "backend", "database">>
    /\ tin.description = UserListPage
    /\ tin.current_state = [completed_agents |-> {}, failed_agents |-> <<>>]

\* The batches of a schedule as sets of agents.
BatchSets(order) == [k \in 1..Len(order.batches) |-> Range(order.batches[k])]

\* C13: for domains [frontend, backend, database], the description "build a
\* user list page" and no completed or failed agent, route() selects the
\* orchestrator first and then the three specialists, chooses dag with the
\* graph frontend -> {backend, database}, backend -> {}, database -> {}
\* (and no edge for the orchestrator), chooses RETRY_WITH_FEEDBACK, and the
\* schedule is {orchestrator, backend, database} then {frontend}.
C13_ThreeDomainScenario ==
    ThreeDomainScenario =>
        /\ tout.kind = "decision"
        /\ tout.decision.selected_agents =
              <<"product.task_orchestrator", "engineering.frontend_specialist",
                "architecture.backend_architect", "data.database_specialist">>
        /\ tout.decision.execution_strategy = "dag"
        /\ tout.decision.dependency_graph # None
        /\ LET g == tout.decision.dependency_graph[1]
           IN /\ DOMAIN g = Range(tout.decision.selected_agents)
              /\ Range(g["engineering.frontend_specialist"]) =
                    {"architecture.backend_architect", "data.database_specialist"}
              /\ g["architecture.backend_architect"] = <<>>
              /\ g["data.database_specialist"] = <<>>
              /\ g["product.task_orchestrator"] = <<>>
        /\ tout.decision.refinement_strategy = "RETRY_WITH_FEEDBACK"
        /\ LET order == get_execution_order(
                            tout.decision,
                            InsertionRank(tout.decision.selected_agents))
           IN /\ order.ok
              /\ BatchSets(order) =
                    <<{"product.task_orchestrator", "architecture.backend_architect",
                       "data.database_specialist"},
                      {"engineering.frontend_specialist"}>>

Orchestrator == "product.task_orchestrator"

\* The agents the domains map to, without the orchestrator and without the
\* completed agents, each at its first occurrence.
MappedSpecialists(domains, completed) ==
    Unique(SelectSeq([i \in 1..Len(domains) |-> domain_agent_map(domains[i])],
                     LAMBDA a : a # "" /\ a # Orchestrator /\ a \notin completed))

\* C14: for every domains list and orchestration state, the selected_agents
\* of route()'s decision holds no agent twice and no agent listed in
\* completed_agents, lists the mapped specialists in first-occurrence order
\* of their domains, and has the orchestrator in first position whenever at
\* least 3 domains were detected.
C14_SelectedAgents ==
    tout.kind = "decision" =>
        LET sel == tout.decision.selected_agents
            completed == tin.current_state.completed_agents
        IN /\ Cardinality(Range(sel)) = Len(sel)
           /\ Range(sel) \cap completed = {}
           /\ SelectSeq(sel, LAMBDA a : a # Orchestrator) =
                 MappedSpecialists(tin.domains, completed)
           /\ Len(tin.domains) >= 3 => sel[1] = Orchestrator

\* The distinct agent ids of the failed_agents entries.
FailedIds(failed_agents) ==
    {failed_agents[i].agent_id : i \in 1..Len(failed_agents)}

\* C15: the refinement_strategy of route()'s decision is RETRY_WITH_FEEDBACK
\* when no agent has failed, ROUTE_TO_DEBUG when more than one distinct
\* agent id has failed, ADD_STEP when exactly one has failed and the
\* complexity is above 0.7, and RETRY_WITH_FEEDBACK otherwise.
C15_RefinementStrategy ==
    tout.kind = "decision" =>
        LET failed == Cardinality(FailedIds(tin.current_state.failed_agents))
            complexity == _analyze_complexity(tin.description, tin.domains)
        IN tout.decision.refinement_strategy =
              IF failed = 0 THEN "RETRY_WITH_FEEDBACK"
              ELSE IF failed > 1 THEN "ROUTE_TO_DEBUG"
              ELSE IF complexity > 700 THEN "ADD_STEP"
              ELSE "RETRY_WITH_FEEDBACK"

\* C16: in every successful route() decision the strategy is sequential
\* exactly when at most one agent is selected; a dag decision has a
\* dependency_graph whose keys are exactly the selected agents; a sequential
\* or parallel decision has no dependency_graph.
C16_StrategyAndGraph ==
    tout.kind = "decision" =>
        LET R == tout.decision
        IN /\ R.execution_strategy = "sequential" <=> Len(R.selected_agents) <= 1
           /\ R.execution_strategy = "dag" =>
                 /\ R.dependency_graph # None
                 /\ DOMAIN R.dependency_graph[1] = Range(R.selected_agents)
           /\ R.execution_strategy \in {"sequential", "parallel"} =>
                 R.dependency_graph = None

C16_Witness ==
    /\ tout.kind = "decision"
    /\ tout.decision.execution_strategy = "dag"
    /\ Len(tout.decision.selected_agents) >= 3
    /\ \E a \in DOMAIN tout.decision.dependency_graph[1] :
          tout.decision.dependency_graph[1][a] # <<>>

\* route() was called with a description and the selection yielded no agent.
EmptySelection ==
    /\ tpc = "returned"
    /\ ~tin.description.empty
    /\ _select_agents(tin.domains, tin.current_state) = <<>>

\* C17: every Routing Decision route() persists or returns has a non-empty
\* selected_agents; when the selection yields no agent, route() returns the
\* failure output with at least one next_action and writes no decision
\* document.
C17_NoEmptySelection ==
    /\ routeDoc # None => routeDoc[1].selected_agents # <<>>
    /\ tout.kind = "decision" => tout.decision.selected_agents # <<>>
    /\ EmptySelection =>
          /\ tout.kind = "error"
          /\ Len(tout.next_actions) >= 1
          /\ routeDoc = None

C17_Witness ==
    /\ EmptySelection
    /\ tin.domains = <<"backend", "other">>
    /\ tin.current_state.completed_agents = {"architecture.backend_architect"}
    /\ tout.kind = "error"

-----------------------------------------------------------------------------
(* Claims about RoutingDecision construction (checked under SchedSpec).    *)

\* C18: constructing a dag Routing Decision whose dependency graph has a
\* cycle (a self-dependency included) fails validation, so that no Routing
\* Decision value with a cyclic graph exists.
C18_CyclicGraphRejected ==
    (decision # None /\ decision[1].execution_strategy = "dag") =>
        Acyclic(decision[1].dependency_graph[1])

-----------------------------------------------------------------------------
(* Claims about AgentChannel (checked under ChannelSpec).                  *)

\* What the receive(agent_id = r) calls returned, in call order.
ReceivedFor(r) == SelectSeq(delivered, LAMBDA d : d.agent_id = r)

\* The position of an envelope among the envelopes sent.
SentIndex(envelope) == CHOOSE i \in 1..Len(sent) : sent[i] = envelope

\* The envelopes of the queue that are addressed to a receiver other than r.
AddressedToOthers(queue, r) == SelectSeq(queue, LAMBDA e : e.receiver # r)

\* Every input returned to r was sent to r before, and r got its inputs in
\* the order they were sent; no envelope was delivered twice.
DeliveredInSendOrder ==
    /\ \A r \in ChannelAgents :
          LET got == ReceivedFor(r)
          IN /\ \A k \in 1..Len(got) :
                   /\ got[k].envelope.receiver = r
                   /\ \E i \in 1..Len(sent) :
                         /\ sent[i] = got[k].envelope
                         /\ sent[i].payload.agent_id = r
             /\ \A j, k \in 1..Len(got) :
                   j < k => SentIndex(got[j].envelope) < SentIndex(got[k].envelope)
    /\ \A j, k \in 1..Len(delivered) :
          j # k => delivered[j].envelope # delivered[k].envelope

\* C19: for any interleaving of send and receive calls, the inputs returned
\* by receive(agent_id = r) are inputs previously sent to r, in the order
\* they were sent, each delivered at most once; and a receive for r neither
\* removes nor reorders the envelopes addressed to another receiver.
C19_FifoPerReceiver ==
    /\ []DeliveredInSendOrder
    /\ [][\A r \in ChannelAgents :
             receive(r) =>
                 AddressedToOthers(message_queue', r)
                     = AddressedToOthers(message_queue, r)]_vars

\* Two inputs were delivered to one receiver while an envelope sent between
\* them to the other receiver is still queued.
C19_Witness ==
    \E r \in ChannelAgents :
        /\ Len(ReceivedFor(r)) = 2
        /\ Len(message_queue) = 1
        /\ message_queue[1].receiver # r
        /\ ReceivedFor(r)[1].envelope.message_id < message_queue[1].message_id
        /\ message_queue[1].message_id < ReceivedFor(r)[2].envelope.message_id

\* validate_agent_communication_contract: the output answers the input.
validate_agent_communication_contract(agent_input, agent_output) ==
    /\ agent_input.agent_id = agent_output.agent_id
    /\ agent_input.task_id = agent_output.task_id

-----------------------------------------------------------------------------
(* Claims about every AgentChannel operation (checked under                *)
(* ChannelOpsSpec).                                                        *)

IsPrefix(a, b) == Len(a) <= Len(b) /\ SubSeq(b, 1, Len(a)) = a

\* The step is a send() call that returned its message id.
SendReturned ==
    /\ Len(sent') = Len(sent) + 1
    /\ JsonSerializable("AgentInput", sent'[Len(sent')].payload)

\* The step is a respond() call that returned its message id.
RespondReturned ==
    /\ Len(responded') = Len(responded) + 1
    /\ JsonSerializable("AgentOutput", responded'[Len(responded')])

\* C21: the messages audit log is append-only: no operation removes or
\* rewrites a record it holds; each successful send and each successful
\* respond appends exactly one record, and a successful send also appends
\* one entry to the invocation chain and one envelope to the queue.
C21_AuditAppendOnly ==
    [][/\ IsPrefix(messages_jsonl, messages_jsonl')
       /\ SendReturned =>
             /\ Len(messages_jsonl') = Len(messages_jsonl) + 1
             /\ invocation_chain'
                   = Append(invocation_chain, sent'[Len(sent')].receiver)
             /\ message_queue' = Append(message_queue, sent'[Len(sent')])
       /\ RespondReturned =>
             Len(messages_jsonl') = Len(messages_jsonl) + 1]_vars

-----------------------------------------------------------------------------
(* Claims about AgentContext (checked under ContextSpec).                  *)

\* C22: add_output fails when the output is older than the context's latest
\* output, so in every context reachable through add_output the timestamps
\* of previous_outputs are non-decreasing.
C22_OutputsChronological ==
    \A i \in 1..(Len(previous_outputs) - 1) :
        previous_outputs[i].timestamp <= previous_outputs[i + 1].timestamp

-----------------------------------------------------------------------------
(* Claims about the feedback accumulator, checked under FeedbackSpec.      *)

\* The records of a document, none for a missing document.
RecordsOf(doc) == IF doc = NoDoc THEN <<>> ELSE doc.records

\* The stored history of a task: the archived document, then the active one.
StoredHistory(task_id) ==
    RecordsOf(archive_dir[task_id]) \o RecordsOf(feedback_dir[task_id])

\* The written records found in seq, in the order seq holds them.
WrittenIn(task_id, seq) ==
    SelectSeq(seq, LAMBDA r : r \in Range(written[task_id]))

\* C23: for any sequence of add and archive operations on one task, every
\* record once written stays present, with its timestamp and feedback text
\* unchanged and in its original relative order, in the task's stored
\* history (the active document or the archived document).
C23_RecordsNeverLost ==
    \A task_id \in FeedbackTaskIds :
        WrittenIn(task_id, StoredHistory(task_id)) = written[task_id]

\* C23 holds until a task is archived for the second time: a record of the
\* task is stored while nothing of the task has been archived before.
C23_Witness ==
    \E task_id \in FeedbackTaskIds :
        /\ archive_dir[task_id] # NoDoc
        /\ feedback_dir[task_id] # NoDoc
        /\ Len(written[task_id]) = 2
        /\ WrittenIn(task_id, StoredHistory(task_id)) = written[task_id]

\* The feedback strings of the last Min(n, Len(records)) records, in order.
LastFeedback(records, n) ==
    LET from == Len(records) - Min(n, Len(records))
    IN [i \in 1..(Len(records) - from) |-> records[from + i].feedback]

\* What C24 expects of get_cumulative(task_id, max_records).
ExpectedCumulative(task_id, max_records) ==
    LET records == RecordsOf(feedback_dir[task_id])
    IN IF max_records = None THEN LastFeedback(records, Len(records))
       ELSE LastFeedback(records, max_records[1])

\* The get_cumulative calls that ask for at least Least records, or for all.
CumulativeAsExpected(Least) ==
    \A task_id \in FeedbackTaskIds :
        \A max_records \in {None} \cup {Some(n) : n \in Least..MaxRecent} :
            get_cumulative(task_id, max_records)
                => cumulative'.result =
                       ExpectedCumulative(task_id, max_records)

\* C24: for every task history and every N >= 0, get_cumulative(task_id, N)
\* returns exactly the feedback strings of the last min(N, number of
\* records) records in the order they were added; with no N it returns all
\* of them, and for a task with no stored history the empty list.
C24_CumulativeLastN == [][CumulativeAsExpected(0)]_vars

\* C24 restricted to N >= 1 and to calls without N.
C24_CumulativePositiveN == [][CumulativeAsExpected(1)]_vars

\* get_cumulative(task_id, 0) has returned feedback of a stored history.
C24_ZeroReturnsAll ==
    /\ cumulative.called
    /\ cumulative.max_records = Some(0)
    /\ cumulative.result # <<>>

-----------------------------------------------------------------------------
(* Claims about runs against a steady verifier, checked under SteadySpec.  *)

\* A run from a fresh state with quality_threshold 0.85 and early-stopping
\* threshold 0.95 whose verifier returns quality_score 0.99 in every round.
SteadyNinetyNine ==
    /\ state # NoDoc /\ pending # NoDoc
    /\ ~loaded
    /\ engine.quality_threshold = 85
    /\ engine.early_stop_threshold = 95
    /\ pending.quality_score = 99

\* The run is past iteration 1 with ema_quality 0.297 and has not returned;
\* ema_quality is below 0.85 before iteration k and at least 0.85 after it;
\* the run returns after iteration k with ema_quality below 0.95.
CrossesAt(k) ==
    /\ state.current_round = 1 =>
           /\ state.ema_quality = 297 * (EmaScale \div 1000)
           /\ rpc # "returned"
    /\ state.current_round < k => state.ema_quality < FromScore(85)
    /\ state.current_round = k => state.ema_quality >= FromScore(85)
    /\ rpc = "returned" =>
           /\ state.current_round = k
           /\ state.ema_quality < FromScore(95)

\* C25: with quality_threshold 0.85, early-stopping threshold 0.95, EMA
\* starting at 0 and a verifier that returns 0.99 every round, the loop does
\* not stop after iteration 1 (ema_quality = 0.297), ema_quality first
\* reaches 0.85 at iteration 7 where the loop returns, and ema_quality has
\* not reached 0.95 when the loop returns.
C25_CrossesAtSeven == SteadyNinetyNine => CrossesAt(7)

\* C25 as the code computes it: ema_quality first reaches 0.85 at
\* iteration 6 (0.99 * (1 - 0.7^6) = 0.8735...), where the loop returns.
C25_CrossesAtSix == SteadyNinetyNine => CrossesAt(6)

\* The run of C25 has returned through the quality-threshold check.
C25_Witness ==
    /\ SteadyNinetyNine
    /\ rpc = "returned"
    /\ exitVia = "quality"
    /\ state.current_round = 6

\* A run from a fresh state with early-stopping threshold 0.95 whose
\* verifier scores every round at or above that threshold.
SteadyHighQuality ==
    /\ state # NoDoc /\ pending # NoDoc
    /\ ~loaded
    /\ engine.early_stop_threshold = 95
    /\ pending.quality_score >= 95

\* C26: when every verifier round scores the artifact at or above the
\* early-stopping threshold 0.95, the loop started from a fresh state stops
\* by early stop after fewer than 5 rounds with a final quality of at least
\* 0.95.
C26_EarlyStopOnHighQuality ==
    (SteadyHighQuality /\ rpc = "returned") =>
        /\ exitVia = "early_stop"
        /\ state.current_round < 5
        /\ state.ema_quality >= FromScore(95)

\* Such a run never stops early: it returns through the quality-threshold
\* check after five rounds or more, with ema_quality below 0.95.
C26_ReturnsByQuality ==
    (SteadyHighQuality /\ rpc = "returned") =>
        /\ exitVia = "quality"
        /\ state.current_round >= 5
        /\ state.ema_quality < FromScore(95)

\* A run against a verifier scoring 1.0 has returned.
C26_Witness ==
    /\ SteadyHighQuality
    /\ pending.quality_score = 100
    /\ rpc = "returned"

-----------------------------------------------------------------------------
(* Claims about failing and concurrent runs of the refinement loop.        *)

\* C27: when the verifier invocation fails in a round (its output has
\* success = false and the error text in output_data.error), the loop treats
\* the round as a failed verification with quality 0: the round goes on to
\* record an iteration with quality_score 0, to update ema_quality and
\* current_round and to persist.
C27_VerifierFailureIsQualityZero ==
    [][VerifyWith(VerifierErrorOutput) =>
           /\ rpc' = "record"
           /\ pending'.quality_score = 0]_vars

\* What the code does: the call raises out of _verify_artifact; nothing is
\* recorded or persisted for the round.
C27_VerifierFailureRaises ==
    [][VerifyWith(VerifierErrorOutput) =>
           /\ rpc' = "raised"
           /\ UNCHANGED <<state, disk, escDoc>>]_vars

\* C28: the loop checks a cancellation signal at the top of each iteration:
\* when cancellation has arrived during round k, round k completes and its
\* state is persisted, and the loop guard that follows does not start
\* round k+1 (the call returns a cancelled terminal state).
C28_CancelStopsAtIterationTop ==
    [][(cancel_requested /\ LoopGuard) =>
           /\ disk = state
           /\ rpc' = "returned"]_vars

\* What the code does: the loop guard of a cancelled run behaves as that of
\* any other run and tests can_continue alone.
C28_CancelIgnored ==
    [][(cancel_requested /\ LoopGuard) =>
           (rpc' = "verify") = can_continue(state)]_vars

\* C30: each iteration's state is saved before any stop check, before the
\* refinement hook and before the next loop guard: at the stop checks, at
\* the hook, at every evaluation of the loop guard after the first
\* iteration and at every return from the loop, the persisted document of
\* the task equals the in-memory state.
C30_SavedBeforeGuard ==
    /\ rpc \in {"check", "hook", "returned"} => disk = state
    /\ (rpc = "guard" /\ verifyCalls >= 1) => disk = state

\* The loop guard is evaluated after an iteration of a run that started
\* from a fresh state.
C30_Witness ==
    /\ rpc = "guard"
    /\ ~loaded
    /\ verifyCalls >= 1
    /\ state.current_round = verifyCalls
    /\ disk = state

\* The state a call on task_id alone has after recording the decisions.
RECURSIVE Replay(_, _)
Replay(S, decisions) ==
    IF decisions = <<>> THEN S
    ELSE Replay(add_iteration(S, IterationRecord(S.current_round + 1, 0,
                                                 decisions[1]), 0),
                Tail(decisions))

AloneState(t) == Replay(TaskState(t, shared_engine), recorded[t])

\* The documents of task t are those of a call that ran alone: the state
\* document holds the state after the iterations the call has recorded (it
\* is absent before the first), the escalation document holds the final
\* state of a call that ran out of rounds (it is absent otherwise).
AsIfAlone(t) ==
    /\ state_dir[StateFile(t)] =
           IF recorded[t] = <<>> THEN NoDoc ELSE AloneState(t)
    /\ state_dir[EscalationFile(t)] =
           IF runs[t].pc = "returned" /\ Exhausted(AloneState(t))
           THEN AloneState(t) ELSE NoDoc

\* A step of the call on task t leaves the documents of every other task.
WritesOwnDocuments(t) ==
    \A f \in SharedFiles \ {StateFile(t), EscalationFile(t)} :
        state_dir'[f] = state_dir[f]

\* C29: for two refinement runs on different task_ids sharing one state
\* directory, under every interleaving of their iterations each task's
\* persisted state document and escalation document are the same as if that
\* task had run alone; no step of one task writes or deletes a document of
\* the other.
C29_TasksIsolated ==
    /\ [](\A t \in SharedTasks : AsIfAlone(t))
    /\ [][\A t \in SharedTasks : TaskStep(t) => WritesOwnDocuments(t)]_vars

\* Both calls have recorded iterations, one of them has escalated while the
\* other is still in its loop.
C29_Witness ==
    /\ runs["uuid-1"].pc = "returned"
    /\ state_dir[EscalationFile("uuid-1")] # NoDoc
    /\ runs["uuid-2"].pc = "check"
    /\ Len(recorded["uuid-2"]) = 1
    /\ Len(recorded["uuid-1"]) = 2
    /\ \A t \in SharedTasks : AsIfAlone(t)

-----------------------------------------------------------------------------
(* Further claims about the refinement loop, checked under Spec.           *)

\* The outputs model_validate rejects; a verifier that raises ends the call
\* at the same statement.
InvalidOutputs ==
    {d \in VerifierOutputs \cup {VerifierErrorOutput} : ~model_validate(d)}

\* The call has raised out of the verification of a round.
RaisedInRound == rpc = "raised" /\ state # NoDoc

\* C31: if the verifier raises, or returns output that is not a valid
\* Verification Decision, in round k, the error propagates out of
\* refine_until_sufficient, no Iteration Record for round k is appended, no
\* escalation document is written, and the persisted state stays exactly
\* the state saved after round k-1.
C31_VerifierErrorSurfaced ==
    /\ [][\A d \in InvalidOutputs :
              VerifyWith(d) =>
                  /\ rpc' = "raised"
                  /\ UNCHANGED <<state, disk, escDoc, escWrites>>]_vars
    /\ [](RaisedInRound =>
              /\ state.current_round = startRound + verifyCalls - 1
              /\ escWrites = 0
              /\ disk = IF state.current_round = 0 /\ ~loaded
                        THEN NoDoc ELSE state)

\* The verification of round 2 of a run from a fresh state has raised.
C31_Witness ==
    /\ RaisedInRound
    /\ ~loaded
    /\ verifyCalls = 2
    /\ state.current_round = 1
    /\ disk = state

\* The iteration just recorded triggered none of early stop, success and
\* escalation.
NoStopTriggered ==
    /\ ~should_early_stop(state)
    /\ state.ema_quality < FromScore(engine.quality_threshold)
    /\ state.current_round < engine.max_rounds

\* The hook is about to be invoked: after an iteration that triggered no
\* stop, for the first time after that iteration, with the persisted state.
HookAfterPlainIteration ==
    rpc = "hook" =>
        /\ NoStopTriggered
        /\ hookCalls = verifyCalls - 1
        /\ disk = state

\* A run with a hook that has returned after n >= 1 iterations has invoked
\* the hook n-1 times.
HookSkipsLastIteration ==
    (rpc = "returned" /\ hasHook /\ verifyCalls >= 1) =>
        hookCalls = verifyCalls - 1

\* C32: the refinement hook is invoked only after an iteration that
\* triggered none of early stop, success and escalation, once per such
\* iteration and with the state that was just persisted; it is never
\* invoked after the last iteration of a run, so a run of n iterations
\* invokes the hook exactly n-1 times.
C32_HookBetweenIterations ==
    HookAfterPlainIteration /\ HookSkipsLastIteration

\* C32 for the runs whose state carries the limits of the engine.
C32_HookBetweenIterationsSameLimits ==
    (state # NoDoc /\ state.max_rounds = engine.max_rounds
     /\ state.quality_threshold = engine.quality_threshold)
        => C32_HookBetweenIterations

\* C33: in every state reached from a fresh start, cumulative_feedback
\* equals the concatenation, in round order, of the feedback lists of all
\* recorded iterations; each iteration only appends to it and never removes
\* or reorders earlier entries.
C33_FeedbackIsConcatenation ==
    /\ []((state # NoDoc /\ ~loaded) =>
              state.cumulative_feedback = FeedbackOf(state.iterations))
    /\ [][(state # NoDoc /\ ~loaded /\ RecordIteration) =>
              /\ IsPrefix(state.cumulative_feedback,
                          state'.cumulative_feedback)
              /\ state'.cumulative_feedback =
                     state.cumulative_feedback \o pending.feedback]_vars

\* A fresh run has recorded two iterations that both carried feedback.
C33_Witness ==
    /\ state # NoDoc /\ ~loaded
    /\ Len(state.iterations) = 2
    /\ state.cumulative_feedback = <<"fa", "fb">>
    /\ state.cumulative_feedback = FeedbackOf(state.iterations)

-----------------------------------------------------------------------------
(* Further claims about debug(), checked under DebugSpec.                  *)

\* C34: within one debug() session every attempt records the same
\* error_pattern, and it equals the session's error_pattern (the
\* classification made on the first attempt).
C34_OnePatternPerSession ==
    /\ \A i \in 1..Len(attempts) :
           attempts[i].error_pattern = _classify_error(din.stack_trace)
    /\ dout.kind = "session" =>
           \A i \in 1..Len(dout.session.attempts) :
               dout.session.attempts[i].error_pattern =
                   dout.session.error_pattern

\* A session of three attempts on a type error has been returned.
C34_Witness ==
    /\ dout.kind = "session"
    /\ Len(dout.session.attempts) = 3
    /\ dout.session.error_pattern = "type"

\* The first attempt of the session did not pass.
FirstAttemptFailed(D) == D.attempts[1].test_result # "passed"

-----------------------------------------------------------------------------
-----------------------------------------------------------------------------
\* C37: a call of refine_until_sufficient for a task whose persisted state
\* already satisfies a stop condition (ema_quality >= quality_threshold, or
\* current_round >= max_rounds) invokes neither the verifier nor the
\* refinement hook, writes no document, and returns the persisted state
\* unchanged.
StopConditionMet(S) ==
    \/ S.ema_quality >= FromScore(S.quality_threshold)
    \/ S.current_round >= S.max_rounds

\* The call has loaded a persisted state that satisfies a stop condition.
ResumedAtStop ==
    /\ rpc = "guard"
    /\ loaded
    /\ verifyCalls = 0
    /\ StopConditionMet(state)

C37_ResumeAtStopIsNoOp ==
    /\ [](ResumedAtStop => state = disk /\ hookCalls = 0 /\ escWrites = 0)
    /\ [][ResumedAtStop =>
            /\ rpc' = "returned"
            /\ UNCHANGED <<state, disk, escDoc, escWrites, verifyCalls, hookCalls>>]_vars
    /\ [](rpc = "returned" /\ loaded /\ StopConditionMet(state) /\ startRound = state.current_round =>
            /\ verifyCalls = 0 /\ hookCalls = 0 /\ escWrites = 0
            /\ state = disk)

\* A call returned with the persisted state, which had reached its quality
\* threshold before its round limit.
C37_Witness ==
    /\ rpc = "returned"
    /\ loaded
    /\ exitVia = "guard"
    /\ verifyCalls = 0
    /\ state = disk
    /\ state.ema_quality >= FromScore(state.quality_threshold)
    /\ state.current_round < state.max_rounds

-----------------------------------------------------------------------------
\* C38: when two add() calls for the same task_id interleave so that each
\* loads the history before the other saves it, both records are in the
\* persisted history once both calls have returned: no feedback record is
\* lost.
HeldIn(record, records) == \E i \in 1..Len(records) : records[i] = record

\* Both workers have returned from add calls on one task, each of which
\* loaded the history before the other saved.
InterleavedAddsReturned ==
    /\ \A w \in Workers : workers[w].pc = "returned"
    /\ workers[1].history.task_id = workers[2].history.task_id
    /\ ~HeldIn(workers[1].record, workers[2].history.records)
    /\ ~HeldIn(workers[2].record, workers[1].history.records)

C38_InterleavedAddsKeepBoth ==
    InterleavedAddsReturned =>
        \A w \in Workers :
            HeldIn(workers[w].record,
                   feedback_dir[workers[w].history.task_id].records)

\* Calls that do not interleave lose nothing: a call that loads after the
\* other has saved writes both records.
C38_SerialAddsKeepBoth ==
    (/\ \A w \in Workers : workers[w].pc = "returned"
     /\ workers[1].history.task_id = workers[2].history.task_id
     /\ ~InterleavedAddsReturned) =>
        \A w \in Workers :
            HeldIn(workers[w].record,
                   feedback_dir[workers[w].history.task_id].records)

-----------------------------------------------------------------------------
\* C39: ema_quality stays within [0, 1] in every reachable refinement state,
\* each update sets it to 0.3 * score + 0.7 * the previous value, and under
\* a constant verifier score s the values starting from 0 never decrease
\* and never exceed s (they stay 0 when s = 0).
ConstantScoreSoFar(S, s) ==
    \A i \in 1..Len(S.iterations) : S.iterations[i].quality_score = s

EmaStep ==
    LET s == pending.quality_score
    IN (rpc = "record" /\ rpc' = "check") =>
          /\ state'.ema_quality =
                 3 * s * (EmaScale \div 1000) + 7 * (state.ema_quality \div 10)
          /\ (~loaded /\ ConstantScoreSoFar(state', s)) =>
                 /\ state.ema_quality <= state'.ema_quality
                 /\ state'.ema_quality <= FromScore(s)
                 /\ s = 0 => state'.ema_quality = 0

C39_EmaBoundedAndMonotone ==
    /\ [](state # NoDoc => state.ema_quality >= 0 /\ state.ema_quality <= EmaScale)
    /\ [][EmaStep]_vars

\* A fresh run after three rounds of score 1.0: 0.3, 0.51, 0.657.
C39_Witness ==
    /\ rpc = "check"
    /\ ~loaded
    /\ Len(state.iterations) = 3
    /\ ConstantScoreSoFar(state, 100)
    /\ state.ema_quality = 657 * (EmaScale \div 1000)

\* A fresh run after three rounds of score 0.0.
C39_ZeroStaysZero ==
    /\ rpc = "check"
    /\ ~loaded
    /\ Len(state.iterations) = 3
    /\ ConstantScoreSoFar(state, 0)
    /\ state.ema_quality = 0

=============================================================================
